---- MODULE Spec2Model ----
(***************************************************************************)
(* A model of the fileup image pipeline (wkharold/fileup): the Receiver    *)
(* (HTTP upload, local store write, image-notification), the periodic      *)
(* sweep of the local store, the Purger, the Labeler and the Archiver.     *)
(* Strings are sequences of one-character strings, so that splitting on    *)
(* "/" and substring matching are computed, not assumed.                   *)
(***************************************************************************)
EXTENDS Integers, Sequences, FiniteSets, TLC

VARIABLES
    req,        \* Receiver: one record per HTTP upload request (ServeHTTP)
    store,      \* local object store: the Receiver's bucket, per filename
    now,        \* wall clock, in minutes
    nextSweep,  \* time of the next tick of the sweep ticker
    imgSub,     \* the Labeler's subscription on the image topic
    purgeSub,   \* the Purger's subscription on the purge topic
    lh,         \* Labeler: handler invocations, one per image message
    labelerUp,  \* the Labeler's receive loop is running
    labeledSub, \* the Archiver's subscription on the labeled topic
    ah,         \* Archiver: handler invocations, one per labeled message
    archiverUp, \* the Archiver's process is running
    cloud,      \* durable store: the Archiver's bucket, per object key
    target,     \* the Archiver's configured target label
    sweep,      \* the sweep goroutine: the run of purgeOldObjects in progress
    cancelled,  \* the Receiver instance was told to shut down
    purgerUp,   \* the Purger's receive loop is running
    topics,     \* broker: the topics that exist
    subs,       \* broker: the subscriptions that exist
    ctor,       \* constructor calls of the stages (New, subscribe)
    archiveSub, \* oldest Archiver: its subscription on the archive topic,
                \* each message with the state of its handler
    hook,       \* the Receiver's pre-stop hook and the bucket it removes
    fan,        \* Archiver instances, each with its own subscription on the
                \* labeled topic
    loop,       \* the Labeler's receive loop: its context and its return
    wire,       \* one labeled-notification from sendNotification's arguments
                \* to parseMessage's results
    upl,        \* Receiver: uploads under any filename a client may send
    fleet       \* Labeler instances and the subscription they share

vars == <<req, store, now, nextSweep, imgSub, purgeSub, lh, labelerUp,
          labeledSub, ah, archiverUp, cloud, target, sweep, cancelled,
          purgerUp, topics, subs, ctor, archiveSub,
          hook, fan, loop, wire, upl, fleet>>

sweepVars    == <<sweep, cancelled>>
receiverVars == <<req, store, now, nextSweep, imgSub, purgeSub, sweepVars,
                  purgerUp>>
labelerVars  == <<lh, labelerUp>>
archiverVars == <<labeledSub, ah, archiverUp, cloud, target>>
setupVars    == <<topics, subs, ctor>>
moreVars     == <<wire, upl, fleet>>
extVars      == <<archiveSub, hook, fan, loop, moreVars>>

---------------------------------------------------------------------------
(* Bounds of the model. *)

MaxReqs == 2      \* HTTP upload requests
MaxSize == 1      \* declared size of an upload, in bytes
MaxTime == 10     \* the clock stops here
MaxExt == 2       \* messages published to a topic by other publishers
MaxPurge == 1     \* purge-notifications
MaxDeliveries == 2  \* deliveries of one purge-notification
MaxCtors == 3       \* constructor calls
MaxArchive == 1     \* messages on the archive topic
MaxFanPub == 2      \* labeled-notifications fanned out to the instances
MaxUploads == 2     \* uploads under arbitrary filenames
MaxFleetPub == 2    \* image-notifications published to the Labeler instances

(* Program constants. *)

RetentionMinutes == 5     \* time.Minute * 5 in purgeOldObjects
SweepMinutes == 5         \* time.NewTicker(time.Minute * 5)
AckDeadlineSeconds == 60  \* AckDeadline: 60 * time.Second
StatusOK == 200
StatusInternalServerError == 500

---------------------------------------------------------------------------
(* Strings. *)

\* A string is a sequence of one-character strings.

\* strings.Split(s, "/")
RECURSIVE Split(_)
Split(s) ==
    IF \A i \in 1..Len(s) : s[i] # "/"
    THEN <<s>>
    ELSE LET i == CHOOSE k \in 1..Len(s) :
                      s[k] = "/" /\ \A j \in 1..(k-1) : s[j] # "/"
         IN  <<SubSeq(s, 1, i-1)>> \o Split(SubSeq(s, i+1, Len(s)))

\* strings.Contains(s, t): case-sensitive substring
Contains(s, t) ==
    \E i \in 0..(Len(s) - Len(t)) : SubSeq(s, i+1, i+Len(t)) = t

\* fmt.Sprintf("%s/%s", bucket, name)
Location(bucket, name) == bucket \o <<"/">> \o name

Bucket == <<"b">>                       \* the Receiver's bucket
Files == { <<"x">>, <<"y">> }           \* upload filenames

Reqs == 1..MaxReqs
Sizes == 1..MaxSize
ImgIds == 1..(MaxReqs + MaxExt)         \* image messages: uploads and others

NoObject == [present |-> FALSE, size |-> 0, by |-> 0, mtime |-> 0]
NoRequest == [pc |-> "idle", file |-> <<>>, size |-> 0, put |-> "none",
              n |-> 0, resp |-> 0, cause |-> "none"]

---------------------------------------------------------------------------
(* Receiver.ServeHTTP: FormFile, PutObject, the size check, Publish and    *)
(* pr.Get, the response.  A request suspends at the store write and at the *)
(* publish, so concurrent requests interleave there.                       *)

\* Faulty variant: the size check is left out.
SizeMismatchIgnored(n, size) == FALSE

\* n != header.Size
SizeMismatch(n, size) == n # size

\* req.FormFile("file") fails: 500, nothing written
ServeHTTP_FormFileFail(r) ==
    /\ req[r].pc = "idle"
    /\ req' = [req EXCEPT ![r] = [@ EXCEPT !.pc = "done",
                   !.resp = StatusInternalServerError, !.cause = "form"]]
    /\ UNCHANGED <<store, now, nextSweep, imgSub, purgeSub>>
    /\ UNCHANGED <<sweepVars, purgerUp, labelerVars, archiverVars, setupVars>>
    /\ UNCHANGED extVars

\* r.mc.PutObject returns an error: 500, the store is as it was
ServeHTTP_PutFail(r, f, size) ==
    /\ req[r].pc = "idle"
    /\ req' = [req EXCEPT ![r] = [@ EXCEPT !.pc = "done", !.file = f,
                   !.size = size, !.put = "err",
                   !.resp = StatusInternalServerError, !.cause = "put"]]
    /\ UNCHANGED <<store, now, nextSweep, imgSub, purgeSub>>
    /\ UNCHANGED <<sweepVars, purgerUp, labelerVars, archiverVars, setupVars>>
    /\ UNCHANGED extVars

\* r.mc.PutObject returns n and no error: the object holds n bytes of the
\* request's stream; then the size check
ServeHTTP_Put(r, f, size, n) ==
    /\ req[r].pc = "idle"
    /\ hook.bucket
    /\ store' = [store EXCEPT ![f] =
                   [present |-> TRUE, size |-> n, by |-> r, mtime |-> now]]
    /\ req' = [req EXCEPT ![r] =
                 IF SizeMismatch(n, size)
                 THEN [@ EXCEPT !.pc = "done", !.file = f, !.size = size,
                          !.put = "ok", !.n = n,
                          !.resp = StatusInternalServerError,
                          !.cause = "incomplete"]
                 ELSE [@ EXCEPT !.pc = "stored", !.file = f, !.size = size,
                          !.put = "ok", !.n = n]]
    /\ UNCHANGED <<now, nextSweep, imgSub, purgeSub>>
    /\ UNCHANGED <<sweepVars, purgerUp, labelerVars, archiverVars, setupVars>>
    /\ UNCHANGED extVars

\* r.topic.Publish: the message reaches the image topic
ServeHTTP_Publish(r) ==
    /\ req[r].pc = "stored"
    /\ Len(imgSub) < MaxReqs + MaxExt
    /\ imgSub' = Append(imgSub, [data |-> Location(Bucket, req[r].file),
                                  from |-> r, acked |-> FALSE])
    /\ req' = [req EXCEPT ![r] = [@ EXCEPT !.pc = "published"]]
    /\ UNCHANGED <<store, now, nextSweep, purgeSub>>
    /\ UNCHANGED <<sweepVars, purgerUp, labelerVars, archiverVars, setupVars>>
    /\ UNCHANGED extVars

\* Faulty variant: the error of pr.Get is ignored and success is reported.
ServeHTTP_PublishFailIgnored(r) ==
    /\ req[r].pc = "stored"
    /\ req' = [req EXCEPT ![r] = [@ EXCEPT !.pc = "done",
                   !.resp = StatusOK, !.cause = "publish"]]
    /\ UNCHANGED <<store, now, nextSweep, imgSub, purgeSub>>
    /\ UNCHANGED <<sweepVars, purgerUp, labelerVars, archiverVars, setupVars>>
    /\ UNCHANGED extVars

\* Faulty variant: a failed publish removes the object it had stored.
ServeHTTP_PublishFailRollback(r) ==
    /\ req[r].pc = "stored"
    /\ req' = [req EXCEPT ![r] = [@ EXCEPT !.pc = "done",
                   !.resp = StatusInternalServerError, !.cause = "publish"]]
    /\ store' = [store EXCEPT ![req[r].file] = NoObject]
    /\ UNCHANGED <<now, nextSweep, imgSub, purgeSub>>
    /\ UNCHANGED <<sweepVars, purgerUp, labelerVars, archiverVars, setupVars>>
    /\ UNCHANGED extVars

\* pr.Get returns an error: 500, no rollback of the stored object
ServeHTTP_PublishFail(r) ==
    /\ req[r].pc = "stored"
    /\ req' = [req EXCEPT ![r] = [@ EXCEPT !.pc = "done",
                   !.resp = StatusInternalServerError, !.cause = "publish"]]
    /\ UNCHANGED <<store, now, nextSweep, imgSub, purgeSub>>
    /\ UNCHANGED <<sweepVars, purgerUp, labelerVars, archiverVars, setupVars>>
    /\ UNCHANGED extVars

\* pr.Get returned the message id: "File ... uploaded successfully."
ServeHTTP_Respond(r) ==
    /\ req[r].pc = "published"
    /\ req' = [req EXCEPT ![r] = [@ EXCEPT !.pc = "done",
                   !.resp = StatusOK]]
    /\ UNCHANGED <<store, now, nextSweep, imgSub, purgeSub>>
    /\ UNCHANGED <<sweepVars, purgerUp, labelerVars, archiverVars, setupVars>>
    /\ UNCHANGED extVars

ServeHTTP(r) ==
    \/ ServeHTTP_FormFileFail(r)
    \/ \E f \in Files, size \in Sizes : ServeHTTP_PutFail(r, f, size)
    \/ \E f \in Files, size \in Sizes, n \in 0..MaxSize :
           n <= size /\ ServeHTTP_Put(r, f, size, n)
    \/ ServeHTTP_Publish(r)
    \/ ServeHTTP_PublishFail(r)
    \/ ServeHTTP_Respond(r)

---------------------------------------------------------------------------
(* The sweep: the ticker goroutine of New and purgeOldObjects.  A run      *)
(* takes the time and lists the bucket, then works through the listing one *)
(* entry at a time; uploads and purges interleave with the entries.        *)

\* Faulty variant: an object exactly as old as the retention window goes too.
ExpiredInclusive(t, mtime) == t - mtime >= RetentionMinutes

\* Faulty variant: an object goes only when two windows old.
ExpiredLate(t, mtime) == t - mtime > RetentionMinutes + SweepMinutes

\* now.Sub(obj.LastModified) > (time.Minute * 5)
Expired(t, mtime) == t - mtime > RetentionMinutes

\* Faulty variant: a single run, no later tick.
NextTickNever(t) == t + 100 * SweepMinutes

\* the ticker: the tick after the one at t
NextTick(t) == t + SweepMinutes

\* keys in the order of a listing
FileOrder == << <<"x">>, <<"y">> >>

ListEntry(key, mtime) == [key |-> key, mtime |-> mtime, err |-> FALSE]
ListError == [key |-> <<>>, mtime |-> 0, err |-> TRUE]

\* the objects of the bucket as ListObjectsV2 reports them
Snapshot(st) ==
    LET present == SelectSeq(FileOrder, LAMBDA f : st[f].present)
    IN  [k \in 1..Len(present) |->
            ListEntry(present[k], st[present[k]].mtime)]

\* what the channel of mc.ListObjectsV2 may deliver: the whole listing, or
\* the listing up to a failed request and an entry with Err set, after which
\* the listing ends or goes on
Listings(st) ==
    LET s == Snapshot(st)
    IN  {s} \cup
        UNION { { SubSeq(s, 1, k) \o <<ListError>>,
                  SubSeq(s, 1, k) \o <<ListError>> \o SubSeq(s, k+1, Len(s)) } :
                k \in 0..Len(s) }

NoSweep == [pc |-> "idle", t |-> 0, list |-> <<>>, done |-> <<>>,
            started |-> 0]

\* A tick of the ticker: purgeOldObjects takes time.Now() and lists the
\* bucket.  Nothing in the goroutine looks at a cancellation.
purgeOldObjects_List ==
    /\ now >= nextSweep
    /\ sweep.pc = "idle"
    /\ \E l \in Listings(store) :
           sweep' = [pc |-> IF l = <<>> THEN "idle" ELSE "run", t |-> now,
                     list |-> l, done |-> <<>>,
                     started |-> sweep.started + 1]
    /\ nextSweep' = NextTick(nextSweep)
    /\ UNCHANGED <<req, store, now, imgSub, purgeSub, cancelled>>
    /\ UNCHANGED <<purgerUp, labelerVars, archiverVars, setupVars, extVars>>

\* what the loop body does with one entry of the listing
EntryResult(t, e, rmOk) ==
    IF e.err THEN "listerr"
    ELSE IF ~Expired(t, e.mtime) THEN "kept"
    ELSE IF rmOk THEN "removed" ELSE "rmerr"

\* Faulty variant: the run returns at the first error.
RestAfterReturn(list, res) ==
    IF res \in {"listerr", "rmerr"} THEN <<>> ELSE Tail(list)

\* continue after an entry with Err, and no return after a failed
\* RemoveObject: the loop goes on with the next entry of the channel
RestAfter(list, res) == Tail(list)

\* The loop body for the next entry of the listing: an entry with Err is
\* logged and skipped; an entry older than the retention window is removed
\* by key, and a failed RemoveObject is logged.
purgeOldObjects_Entry(rmOk) ==
    /\ sweep.pc = "run"
    /\ LET e == Head(sweep.list)
           res == EntryResult(sweep.t, e, rmOk)
       IN  /\ store' = IF res = "removed"
                       THEN [store EXCEPT ![e.key] = NoObject]
                       ELSE store
           /\ sweep' = [sweep EXCEPT
                          !.pc = IF RestAfter(sweep.list, res) = <<>>
                                 THEN "idle" ELSE "run",
                          !.list = RestAfter(@, res),
                          !.done = Append(@, [key |-> e.key,
                                              mtime |-> e.mtime,
                                              res |-> res])]
    /\ UNCHANGED <<req, now, nextSweep, imgSub, purgeSub, cancelled>>
    /\ UNCHANGED <<purgerUp, labelerVars, archiverVars, setupVars, extVars>>

purgeOldObjects ==
    \/ purgeOldObjects_List
    \/ \E rmOk \in BOOLEAN : purgeOldObjects_Entry(rmOk)

\* A minute passes.  A due sweep runs before the next minute does, and a run
\* is over within the minute.
Tick ==
    /\ now < MaxTime
    /\ now < nextSweep
    /\ sweep.pc = "idle"
    /\ now' = now + 1
    /\ UNCHANGED <<req, store, nextSweep, imgSub, purgeSub>>
    /\ UNCHANGED <<sweepVars, purgerUp, labelerVars, archiverVars, setupVars>>
    /\ UNCHANGED extVars

\* The Receiver instance is told to shut down.  New takes no context and
\* keeps no handle on the ticker or the goroutine: nothing records it.
CancelReceiver ==
    /\ ~cancelled
    /\ cancelled' = TRUE
    /\ UNCHANGED <<req, store, now, nextSweep, imgSub, purgeSub, sweep>>
    /\ UNCHANGED <<purgerUp, labelerVars, archiverVars, setupVars, extVars>>

---------------------------------------------------------------------------
(* The Purger: purge-notifications are plain "<bucket>/<key>".             *)

PurgePayloads == { Location(Bucket, f) : f \in Files } \cup { <<"a">> }

\* Some publisher puts a purge-notification on the purge topic.
PublishPurge(d) ==
    /\ Len(purgeSub) < MaxPurge
    /\ purgeSub' = Append(purgeSub, [data |-> d, acked |-> FALSE, n |-> 0,
                                      res |-> "none"])
    /\ UNCHANGED <<req, store, now, nextSweep, imgSub>>
    /\ UNCHANGED <<sweepVars, purgerUp, labelerVars, archiverVars, setupVars>>
    /\ UNCHANGED extVars

\* Faulty variant: the message is acknowledged only when the delete worked.
PurgerAckOnSuccess(failed) == ~failed

\* defer m.Ack(): the handler acknowledges however it returns
PurgerAck(failed) == TRUE

\* len(mparts) != 2
BadPurge(mparts) == Len(mparts) # 2

\* Purger.ReceiveAndProcess, the handler: defer m.Ack(), split, RemoveObject.
\* rmErr: RemoveObject returned an error and removed nothing.
PurgerHandle(i, rmErr) ==
    /\ purgerUp
    /\ i \in 1..Len(purgeSub)
    /\ ~purgeSub[i].acked
    /\ LET mparts == Split(purgeSub[i].data)
       IN  IF BadPurge(mparts)
           THEN /\ store' = store
                /\ purgeSub' = [purgeSub EXCEPT ![i] = [@ EXCEPT
                       !.acked = PurgerAck(TRUE), !.n = @ + 1, !.res = "bad"]]
                /\ purgerUp' = purgerUp
           ELSE /\ store' = IF ~rmErr /\ mparts[1] = Bucket
                               /\ mparts[2] \in Files
                            THEN [store EXCEPT ![mparts[2]] = NoObject]
                            ELSE store
                /\ purgeSub' = [purgeSub EXCEPT ![i] = [@ EXCEPT
                       !.acked = PurgerAck(rmErr), !.n = @ + 1,
                       !.res = IF rmErr THEN "rmerr" ELSE "removed"]]
                /\ purgerUp' = purgerUp
    /\ UNCHANGED <<req, now, nextSweep, imgSub>>
    /\ UNCHANGED <<sweepVars, labelerVars, archiverVars, setupVars, extVars>>

\* The broker delivers an acknowledged purge-notification once more
\* (delivery is at least once).
RedeliverPurge(i) ==
    /\ i \in 1..Len(purgeSub)
    /\ purgeSub[i].acked
    /\ purgeSub[i].n < MaxDeliveries
    /\ purgeSub' = [purgeSub EXCEPT ![i].acked = FALSE]
    /\ UNCHANGED <<req, store, now, nextSweep, imgSub>>
    /\ UNCHANGED <<sweepVars, purgerUp, labelerVars, archiverVars, setupVars>>
    /\ UNCHANGED extVars

---------------------------------------------------------------------------
(* JSON on the wire.  A payload is invalid text or a value; an object is   *)
(* its sequence of members in the order written.  A member's value is a    *)
(* scalar or an array of scalars.                                          *)

JScalar(t, s) == [t |-> t, s |-> s]
JStr(s) == [t |-> "str", s |-> s, a |-> <<>>]
JNum(s) == [t |-> "num", s |-> s, a |-> <<>>]
JNull == [t |-> "null", s |-> <<>>, a |-> <<>>]
JArr(a) == [t |-> "arr", s |-> <<>>, a |-> a]
JMember(k, v) == [k |-> k, v |-> v]
JObject(f) == [t |-> "obj", f |-> f]
JOther(t) == [t |-> t, f |-> <<>>]     \* "invalid", "null", "num", "str", "arr"

\* Faulty variant: the struct has no tags, the members are named by the
\* fields.
MarshalUntagged(location, labels) ==
    JObject(<< JMember("Location", JStr(location)),
               JMember("Labels",
                       JArr([i \in 1..Len(labels) |->
                                JScalar("str", labels[i])])) >>)

\* json.Marshal(&LabeledImage{Location: location, Labels: labels}): the
\* members are named by the struct tags, in field order
Marshal(location, labels) ==
    JObject(<< JMember("location", JStr(location)),
               JMember("labels",
                       JArr([i \in 1..Len(labels) |->
                                JScalar("str", labels[i])])) >>)

---------------------------------------------------------------------------
(* The Labeler: Labeler.ReceiveAndProcess, labelImage, sendNotification.   *)
(* A handler suspends at the object fetch, at the annotation call and at   *)
(* the publish.  m.Ack() is deferred: it runs when the handler returns.    *)

MaxResults == 3
Cat == <<"c","a","t">>
Tabby == <<"t","a","b","b","y">>
Bobcat == <<"b","o","b","c","a","t">>
UpperCat == <<"C","a","t">>

\* what AnnotateImage may return: at most MaxResults labels
LabelLists == { <<>>, <<Cat>>, <<Tabby, Cat>>, <<Bobcat, UpperCat, Cat>> }

\* payloads other publishers may put on the image topic
ImagePayloads == { <<"a">>, <<"a","/","b","/","c">>, <<"b","/","x">>,
                   <<"q","/","x">> }

\* Faulty variant: only payloads without any "/" are rejected.
BadMessageLoose(mparts) == Len(mparts) < 2

\* len(mparts) != 2
BadMessage(mparts) == Len(mparts) # 2

\* Faulty variant: an empty label list is published like any other.
NoLabelsIgnored(labels) == FALSE

\* len(labels) == 0
NoLabels(labels) == Len(labels) = 0

\* mc.GetObject(bucket, image) can deliver the object's bytes
Readable(bucket, image) ==
    bucket = Bucket /\ image \in Files /\ store[image].present

\* the handler returns: the deferred m.Ack() runs, whatever the outcome
LabelerReturn(i, outcome, log) ==
    /\ lh' = [lh EXCEPT ![i] = [@ EXCEPT !.pc = "returned",
                                   !.outcome = outcome, !.log = log]]
    /\ imgSub' = [imgSub EXCEPT ![i].acked = TRUE]

\* Some other publisher puts a payload on the image topic.
PublishImage(d) ==
    /\ Len(imgSub) < MaxReqs + MaxExt
    /\ Cardinality({i \in 1..Len(imgSub) : imgSub[i].from = 0}) < MaxExt
    /\ imgSub' = Append(imgSub, [data |-> d, from |-> 0, acked |-> FALSE])
    /\ UNCHANGED <<req, store, now, nextSweep, purgeSub>>
    /\ UNCHANGED <<sweepVars, purgerUp, labelerVars, archiverVars, setupVars>>
    /\ UNCHANGED extVars

\* The broker delivers message i: defer m.Ack(), split, the format check.
Labeler_Receive(i) ==
    /\ labelerUp
    /\ ~loop.cancelled
    /\ i \in 1..Len(imgSub)
    /\ ~imgSub[i].acked
    /\ lh[i].pc \in {"none", "returned"}
    /\ LET mparts == Split(imgSub[i].data)
       IN  IF BadMessage(mparts)
           THEN LabelerReturn(i, "bad", "error") /\ labelerUp' = labelerUp
           ELSE IF Len(mparts) < 2
           THEN \* mparts[1] is out of range: the handler panics
                /\ lh' = [lh EXCEPT ![i] = [@ EXCEPT !.pc = "crashed",
                                               !.outcome = "panic"]]
                /\ \E sent \in BOOLEAN :
                      imgSub' = [imgSub EXCEPT ![i].acked = sent]
                /\ labelerUp' = FALSE
           ELSE /\ lh' = [lh EXCEPT ![i] = [@ EXCEPT !.pc = "fetch",
                                               !.outcome = "none",
                                               !.log = "none"]]
                /\ imgSub' = imgSub
                /\ labelerUp' = labelerUp
    /\ UNCHANGED <<req, store, now, nextSweep, purgeSub>>
    /\ UNCHANGED <<sweepVars, purgerUp, archiverVars, setupVars, extVars>>

\* labelImage: l.mc.GetObject and vision.NewImageFromReader
Labeler_Fetch(i, ok) ==
    /\ labelerUp
    /\ lh[i].pc = "fetch"
    /\ LET mparts == Split(imgSub[i].data)
       IN  IF ok
           THEN /\ Len(mparts) >= 2
                /\ Readable(mparts[1], mparts[2])
                /\ lh' = [lh EXCEPT ![i] = [@ EXCEPT !.pc = "annotate",
                               !.fetches = @ + 1,
                               !.img = [size |-> store[mparts[2]].size,
                                        by |-> store[mparts[2]].by]]]
                /\ imgSub' = imgSub
           ELSE LabelerReturn(i, "fetcherr", "error")
    /\ UNCHANGED <<req, store, now, nextSweep, purgeSub, labelerUp>>
    /\ UNCHANGED <<sweepVars, purgerUp, archiverVars, setupVars, extVars>>

\* labelImage: l.iac.AnnotateImage fails
Labeler_AnnotateFail(i) ==
    /\ labelerUp
    /\ lh[i].pc = "annotate"
    /\ LabelerReturn(i, "annerr", "error")
    /\ UNCHANGED <<req, store, now, nextSweep, purgeSub, labelerUp>>
    /\ UNCHANGED <<sweepVars, purgerUp, archiverVars, setupVars, extVars>>

\* labelImage: l.iac.AnnotateImage returns labels; then len(labels) == 0
Labeler_Annotate(i, labels) ==
    /\ labelerUp
    /\ lh[i].pc = "annotate"
    /\ IF NoLabels(labels)
       THEN /\ lh' = [lh EXCEPT ![i] = [@ EXCEPT !.pc = "returned",
                         !.outcome = "nolabels", !.log = "info",
                         !.annotates = @ + 1, !.labels = labels]]
            /\ imgSub' = [imgSub EXCEPT ![i].acked = TRUE]
       ELSE /\ lh' = [lh EXCEPT ![i] = [@ EXCEPT !.pc = "send",
                         !.annotates = @ + 1, !.labels = labels]]
            /\ imgSub' = imgSub
    /\ UNCHANGED <<req, store, now, nextSweep, purgeSub, labelerUp>>
    /\ UNCHANGED <<sweepVars, purgerUp, archiverVars, setupVars, extVars>>

\* sendNotification: Marshal, topic.Publish, pr.Get
sendNotification(i, ok) ==
    /\ labelerUp
    /\ lh[i].pc = "send"
    /\ IF ok
       THEN /\ Len(labeledSub) < MaxReqs + 2 * MaxExt
            /\ labeledSub' = Append(labeledSub,
                   [data |-> Marshal(imgSub[i].data, lh[i].labels),
                    from |-> i, acked |-> FALSE])
            /\ lh' = [lh EXCEPT ![i] = [@ EXCEPT !.pc = "returned",
                         !.outcome = "sent", !.log = "info",
                         !.publishes = @ + 1]]
            /\ imgSub' = [imgSub EXCEPT ![i].acked = TRUE]
       ELSE /\ labeledSub' = labeledSub
            /\ LabelerReturn(i, "puberr", "error")
    /\ UNCHANGED <<req, store, now, nextSweep, purgeSub, labelerUp>>
    /\ UNCHANGED <<sweepVars, purgerUp, ah, archiverUp, cloud, target, setupVars>>
    /\ UNCHANGED extVars

---------------------------------------------------------------------------
(* The Archiver: Archiver.ReceiveAndProcess, parseMessage, writeToCloud.   *)
(* A handler suspends at the read of the local object and at the write to  *)
(* the durable store.  A failed type assertion panics; nothing recovers    *)
(* it, so the process ends.                                                *)

LabIds == 1..(MaxReqs + 2 * MaxExt)     \* labeled messages

Dog == <<"d","o","g">>
Targets == { Cat, Dog }

\* map[string]interface{}: is the key there, and its value (the last member
\* of that name; nil when the key is absent or the value is null)
HasKey(f, k) == \E i \in 1..Len(f) : f[i].k = k
Lookup(f, k) ==
    IF HasKey(f, k)
    THEN f[CHOOSE i \in 1..Len(f) :
               f[i].k = k /\ \A j \in (i+1)..Len(f) : f[j].k # k].v
    ELSE JNull

ParseResult(res, bucket, object, labels) ==
    [res |-> res, bucket |-> bucket, object |-> object, labels |-> labels]

\* parseMessage: json.Unmarshal into an interface{}, then unchecked type
\* assertions; res is "ok", "err" (an error is returned) or "panic"
parseMessage(msg) ==
    IF msg.t = "invalid" THEN ParseResult("err", <<>>, <<>>, <<>>)
    ELSE IF msg.t # "obj" THEN ParseResult("panic", <<>>, <<>>, <<>>)
    ELSE
      LET location == Lookup(msg.f, "location")
          labels == Lookup(msg.f, "labels")
          locparts == Split(location.s)
      IN  IF location.t = "null" THEN ParseResult("err", <<>>, <<>>, <<>>)
          ELSE IF location.t # "str" THEN ParseResult("panic", <<>>, <<>>, <<>>)
          ELSE IF Len(location.s) = 0 THEN ParseResult("err", <<>>, <<>>, <<>>)
          ELSE IF labels.t = "null" THEN ParseResult("err", <<>>, <<>>, <<>>)
          ELSE IF labels.t # "arr" THEN ParseResult("panic", <<>>, <<>>, <<>>)
          ELSE IF Len(labels.a) = 0 THEN ParseResult("err", <<>>, <<>>, <<>>)
          ELSE IF Len(locparts) # 2 THEN ParseResult("err", <<>>, <<>>, <<>>)
          ELSE IF \E i \in 1..Len(labels.a) : labels.a[i].t # "str"
               THEN ParseResult("panic", <<>>, <<>>, <<>>)
          ELSE ParseResult("ok", locparts[1], locparts[2],
                           [i \in 1..Len(labels.a) |-> labels.a[i].s])

\* Faulty variant: the match ignores the case of the letters.
MatchesFold(label, tg) ==
    LET Fold(c) == IF c = "C" THEN "c" ELSE c
    IN  Contains([i \in 1..Len(label) |-> Fold(label[i])],
                 [i \in 1..Len(tg) |-> Fold(tg[i])])

\* Faulty variant: the label must equal the target.
MatchesEqual(label, tg) == label = tg

\* strings.Contains(label, a.label)
Matches(label, tg) == Contains(label, tg)

\* Faulty variant: the loop goes on after a match, one writeToCloud per match.
RECURSIVE WriteCallsNoReturn(_, _)
WriteCallsNoReturn(labels, tg) ==
    IF labels = <<>> THEN <<>>
    ELSE (IF Matches(Head(labels), tg) THEN <<Head(labels)>> ELSE <<>>)
         \o WriteCallsNoReturn(Tail(labels), tg)

\* for _, label := range labels: the labels for which the loop calls
\* writeToCloud; it returns after the first match
RECURSIVE WriteCalls(_, _)
WriteCalls(labels, tg) ==
    IF labels = <<>> THEN <<>>
    ELSE IF Matches(Head(labels), tg) THEN <<Head(labels)>>
    ELSE WriteCalls(Tail(labels), tg)

NoArchiverHandler == [pc |-> "none", outcome |-> "none", log |-> "none",
                      todo |-> <<>>, calls |-> 0, writes |-> 0,
                      key |-> <<>>, buf |-> [size |-> 0, by |-> 0]]

\* payloads other publishers may put on the labeled topic, the Labeler's
\* own format among them
LabeledPayloads ==
    { Marshal(<<"b","/","x">>, <<Tabby, Cat>>),
      Marshal(<<"b","/","y">>, <<Bobcat, UpperCat, Cat>>),
      Marshal(<<"b","/","x">>, <<UpperCat>>),
      Marshal(<<"b","/","y">>, <<Bobcat>>),
      JOther("invalid"),
      JOther("arr"),
      JOther("null"),
      JObject(<<>>),
      JObject(<< JMember("location", JNum(<<"5">>)),
                 JMember("labels", JArr(<<JScalar("str", Cat)>>)) >>),
      JObject(<< JMember("location", JStr(<<"b","/","x">>)),
                 JMember("labels", JStr(Cat)) >>),
      JObject(<< JMember("location", JStr(<<"b","/","x">>)),
                 JMember("labels", JArr(<<JScalar("num", <<"7">>)>>)) >>),
      JObject(<< JMember("location", JStr(<<"a","/","b","/","c">>)),
                 JMember("labels", JArr(<<JScalar("str", Cat)>>)) >>),
      JObject(<< JMember("location", JStr(<<"b","/","x">>)),
                 JMember("labels", JArr(<<>>)) >>) }

\* Some other publisher puts a payload on the labeled topic.
PublishLabeled(w) ==
    /\ Len(labeledSub) < MaxReqs + 2 * MaxExt
    /\ Cardinality({j \in 1..Len(labeledSub) : labeledSub[j].from = 0})
          < MaxExt
    /\ labeledSub' = Append(labeledSub,
                            [data |-> w, from |-> 0, acked |-> FALSE])
    /\ UNCHANGED <<receiverVars, labelerVars, setupVars, ah, archiverUp, cloud, target>>
    /\ UNCHANGED extVars

\* the handler returns: the deferred m.Ack() runs
ArchiverReturn(j, outcome, log) ==
    /\ ah' = [ah EXCEPT ![j] = [@ EXCEPT !.pc = "returned",
                                   !.outcome = outcome, !.log = log]]
    /\ labeledSub' = [labeledSub EXCEPT ![j].acked = TRUE]

\* one call of writeToCloud is over, with or without error: the next call
\* of the loop, or the return
ArchiverCallDone(j, h, outcome, log) ==
    IF Len(h.todo) > 1
    THEN /\ ah' = [ah EXCEPT ![j] = [h EXCEPT !.pc = "read",
                      !.todo = Tail(@), !.outcome = outcome, !.log = log]]
         /\ labeledSub' = labeledSub
    ELSE /\ ah' = [ah EXCEPT ![j] = [h EXCEPT !.pc = "returned",
                      !.todo = <<>>, !.outcome = outcome, !.log = log]]
         /\ labeledSub' = [labeledSub EXCEPT ![j].acked = TRUE]

\* The broker delivers message j: defer m.Ack(), parseMessage, the loop
\* over the labels up to the first match.  On a panic the deferred Ack
\* runs, but the process ends before or after the ack is sent.
Archiver_Receive(j) ==
    /\ archiverUp
    /\ j \in 1..Len(labeledSub)
    /\ ~labeledSub[j].acked
    /\ ah[j].pc \in {"none", "returned"}
    /\ LET p == parseMessage(labeledSub[j].data)
       IN  CASE p.res = "panic" ->
                  /\ ah' = [ah EXCEPT ![j] = [@ EXCEPT !.pc = "crashed",
                                !.outcome = "panic", !.log = "none"]]
                  /\ \E sent \in BOOLEAN :
                        labeledSub' = [labeledSub EXCEPT ![j].acked = sent]
                  /\ archiverUp' = FALSE
             [] p.res = "err" ->
                  /\ ArchiverReturn(j, "bad", "error")
                  /\ archiverUp' = archiverUp
             [] OTHER ->
                  /\ archiverUp' = archiverUp
                  /\ IF WriteCalls(p.labels, target) = <<>>
                     THEN ArchiverReturn(j, "nomatch", "none")
                     ELSE /\ ah' = [ah EXCEPT ![j] = [@ EXCEPT !.pc = "read",
                                       !.todo = WriteCalls(p.labels, target),
                                       !.outcome = "none", !.log = "none"]]
                          /\ labeledSub' = labeledSub
    /\ UNCHANGED <<receiverVars, labelerVars, setupVars, cloud, target>>
    /\ UNCHANGED extVars

\* Faulty variant: the writer is closed on the way out, which commits an
\* empty object.
WriterClosed(old) == [present |-> TRUE, size |-> 0, by |-> 0]

\* writeToCloud returns on a read error with the writer it made neither
\* written to nor closed: no upload was started, the object is as it was
WriterAbandoned(old) == old

\* writeToCloud: NewWriter, mc.GetObject, ioutil.ReadAll
Archiver_Read(j, ok) ==
    /\ archiverUp
    /\ ah[j].pc = "read"
    /\ LET p == parseMessage(labeledSub[j].data)
           h == [ah[j] EXCEPT !.calls = @ + 1]
       IN  IF ok
           THEN /\ Readable(p.bucket, p.object)
                /\ ah' = [ah EXCEPT ![j] = [h EXCEPT !.pc = "write",
                              !.buf = [size |-> store[p.object].size,
                                       by |-> store[p.object].by]]]
                /\ labeledSub' = labeledSub
                /\ cloud' = cloud
           ELSE /\ ArchiverCallDone(j, h, "writeerr", "error")
                /\ cloud' = IF p.object \in DOMAIN cloud
                            THEN [cloud EXCEPT ![p.object] =
                                     WriterAbandoned(@)]
                            ELSE cloud
    /\ UNCHANGED <<receiverVars, labelerVars, setupVars, archiverUp, target>>
    /\ UNCHANGED extVars

\* Faulty variant: the bytes are appended to what the object held.
DurableAppend(old, buf) ==
    [present |-> TRUE, size |-> old.size + buf.size, by |-> buf.by]

\* Faulty variant: the object is created but its bytes are not written.
DurableWriteEmpty(old, buf) ==
    [present |-> TRUE, size |-> 0, by |-> buf.by]

\* Object(key).NewWriter, wc.Write, wc.Close: the object under the key is
\* replaced by the bytes written
DurableWrite(old, buf) ==
    [present |-> TRUE, size |-> buf.size, by |-> buf.by]

\* Faulty variant: the handler removes the local object once it is archived.
Archiver_WriteAndRemove(j, ok) ==
    /\ archiverUp
    /\ ah[j].pc = "write"
    /\ LET p == parseMessage(labeledSub[j].data)
       IN  IF ok
           THEN /\ cloud' = [cloud EXCEPT ![p.object] =
                               DurableWrite(@, ah[j].buf)]
                /\ store' = [store EXCEPT ![p.object] = NoObject]
                /\ ArchiverCallDone(j, [ah[j] EXCEPT !.writes = @ + 1,
                                                     !.key = p.object],
                                    "archived", "none")
           ELSE /\ cloud' = cloud /\ store' = store
                /\ ArchiverCallDone(j, ah[j], "writeerr", "error")
    /\ UNCHANGED <<req, now, nextSweep, imgSub, purgeSub, sweepVars, purgerUp>>
    /\ UNCHANGED <<labelerVars, setupVars, extVars, archiverUp, target>>

\* writeToCloud: wc.Write and wc.Close; the object is in the durable store
\* once Close returns without error
Archiver_Write(j, ok) ==
    /\ archiverUp
    /\ ah[j].pc = "write"
    /\ LET p == parseMessage(labeledSub[j].data)
       IN  IF ok
           THEN /\ cloud' = [cloud EXCEPT ![p.object] =
                               DurableWrite(@, ah[j].buf)]
                /\ ArchiverCallDone(j, [ah[j] EXCEPT !.writes = @ + 1,
                                                     !.key = p.object],
                                    "archived", "none")
           ELSE /\ cloud' = cloud
                /\ ArchiverCallDone(j, ah[j], "writeerr", "error")
    /\ UNCHANGED <<receiverVars, labelerVars, setupVars, archiverUp, target>>
    /\ UNCHANGED extVars

NoCloudObject == [present |-> FALSE, size |-> 0, by |-> 0]

\* The broker delivers an acknowledged labeled-notification once more
\* (delivery is at least once).
RedeliverLabeled(j) ==
    /\ j \in 1..Len(labeledSub)
    /\ labeledSub[j].acked
    /\ ah[j].pc = "returned"
    /\ ah[j].calls < MaxDeliveries
    /\ labeledSub' = [labeledSub EXCEPT ![j].acked = FALSE]
    /\ UNCHANGED <<receiverVars, labelerVars, setupVars, extVars>>
    /\ UNCHANGED <<ah, archiverUp, cloud, target>>

---------------------------------------------------------------------------
(* The oldest Archiver, the one with the archive-to-purge link: it takes   *)
(* plain "<bucket>/<image>" messages from the archive topic, copies the    *)
(* object to the durable store and then publishes a purge-notification.    *)

ArchivePayloads == { Location(Bucket, f) : f \in Files } \cup { <<"a">> }

NoArchiveHandler == [pc |-> "none", outcome |-> "none", log |-> "none",
                     buf |-> [size |-> 0, by |-> 0], closed |-> FALSE,
                     purges |-> 0]

\* Some publisher puts a payload on the archive topic.
PublishArchive(d) ==
    /\ Len(archiveSub) < MaxArchive
    /\ archiveSub' = Append(archiveSub, [data |-> d, acked |-> FALSE,
                                          h |-> NoArchiveHandler])
    /\ UNCHANGED <<receiverVars, labelerVars, archiverVars, setupVars, hook, fan, loop, moreVars>>

\* the handler returns: the deferred m.Ack() runs, whatever the outcome
Archiver1_Return(k, h, outcome, log) ==
    archiveSub' = [archiveSub EXCEPT ![k] = [@ EXCEPT !.acked = TRUE,
                      !.h = [h EXCEPT !.pc = "returned",
                                      !.outcome = outcome, !.log = log]]]

\* The broker delivers message k: defer m.Ack(), split, the format check,
\* NewWriter.
Archiver1_Receive(k) ==
    /\ k \in 1..Len(archiveSub)
    /\ ~archiveSub[k].acked
    /\ archiveSub[k].h.pc = "none"
    /\ IF Len(Split(archiveSub[k].data)) # 2
       THEN Archiver1_Return(k, archiveSub[k].h, "bad", "error")
       ELSE archiveSub' = [archiveSub EXCEPT ![k].h.pc = "read"]
    /\ UNCHANGED <<receiverVars, labelerVars, archiverVars, setupVars, hook, fan, loop, moreVars>>

\* a.mc.GetObject and ioutil.ReadAll
Archiver1_Read(k, ok) ==
    /\ k \in 1..Len(archiveSub)
    /\ archiveSub[k].h.pc = "read"
    /\ LET mparts == Split(archiveSub[k].data)
       IN  IF ok
           THEN /\ Readable(mparts[1], mparts[2])
                /\ archiveSub' = [archiveSub EXCEPT ![k].h =
                       [@ EXCEPT !.pc = "write",
                                 !.buf = [size |-> store[mparts[2]].size,
                                          by |-> store[mparts[2]].by]]]
           ELSE Archiver1_Return(k, archiveSub[k].h, "readerr", "error")
    /\ UNCHANGED <<receiverVars, labelerVars, archiverVars, setupVars, hook, fan, loop, moreVars>>

\* Faulty variant: a failed write or close is logged and the handler goes on
\* to the publish.
Archiver1_WriteNoReturn(k, ok) ==
    /\ k \in 1..Len(archiveSub)
    /\ archiveSub[k].h.pc = "write"
    /\ LET mparts == Split(archiveSub[k].data)
       IN  /\ cloud' = IF ok
                       THEN [cloud EXCEPT ![mparts[2]] =
                               [present |-> TRUE,
                                size |-> archiveSub[k].h.buf.size,
                                by |-> archiveSub[k].h.buf.by]]
                       ELSE cloud
           /\ archiveSub' = [archiveSub EXCEPT ![k].h =
                  [@ EXCEPT !.pc = "publish", !.closed = ok,
                            !.log = IF ok THEN "none" ELSE "error"]]
    /\ UNCHANGED <<receiverVars, labelerVars, setupVars>>
    /\ UNCHANGED <<labeledSub, ah, archiverUp, target, hook, fan, loop, moreVars>>

\* wc.Write and wc.Close: the object is in the durable store once Close
\* returns without error; on an error of either the handler returns
Archiver1_Write(k, ok) ==
    /\ k \in 1..Len(archiveSub)
    /\ archiveSub[k].h.pc = "write"
    /\ LET mparts == Split(archiveSub[k].data)
       IN  IF ok
           THEN /\ cloud' = [cloud EXCEPT ![mparts[2]] =
                               [present |-> TRUE,
                                size |-> archiveSub[k].h.buf.size,
                                by |-> archiveSub[k].h.buf.by]]
                /\ archiveSub' = [archiveSub EXCEPT ![k].h =
                       [@ EXCEPT !.pc = "publish", !.closed = TRUE]]
           ELSE /\ cloud' = cloud
                /\ Archiver1_Return(k, archiveSub[k].h, "writeerr", "error")
    /\ UNCHANGED <<receiverVars, labelerVars, setupVars>>
    /\ UNCHANGED <<labeledSub, ah, archiverUp, target, hook, fan, loop, moreVars>>

\* a.pt.Publish and pr.Get: the purge-notification "<bucket>/<image>"
Archiver1_PublishPurge(k, ok) ==
    /\ k \in 1..Len(archiveSub)
    /\ archiveSub[k].h.pc = "publish"
    /\ LET mparts == Split(archiveSub[k].data)
       IN  IF ok
           THEN /\ Len(purgeSub) < MaxPurge
                /\ purgeSub' = Append(purgeSub,
                       [data |-> Location(mparts[1], mparts[2]),
                        acked |-> FALSE, n |-> 0, res |-> "none"])
                /\ Archiver1_Return(k, [archiveSub[k].h EXCEPT
                                           !.purges = @ + 1],
                                    "purged", "none")
           ELSE /\ purgeSub' = purgeSub
                /\ Archiver1_Return(k, archiveSub[k].h, "puberr", "error")
    /\ UNCHANGED <<req, store, now, nextSweep, imgSub, sweepVars, purgerUp>>
    /\ UNCHANGED <<labelerVars, archiverVars, setupVars, hook, fan, loop, moreVars>>

Archiver1_Step(k) ==
    \/ Archiver1_Receive(k)
    \/ \E ok \in BOOLEAN : Archiver1_Read(k, ok)
    \/ \E ok \in BOOLEAN : Archiver1_Write(k, ok)
    \/ \E ok \in BOOLEAN : Archiver1_PublishPurge(k, ok)

---------------------------------------------------------------------------
(* The Receiver's pre-stop hook: the handler of /_prestop lists the bucket, *)
(* removes every listed object and then the bucket.  main declares its own *)
(* logger (logger, err := sdlog.Logger(...)), so the package-level logger  *)
(* the hook uses is never set.                                             *)

NoHook == [pc |-> "idle", list |-> <<>>, logged |-> 0, failures |-> 0,
           resp |-> 0, bucket |-> TRUE]

\* the package-level logger as the hook finds it
HookLogger == "nil"

\* LogError has a value receiver: the call through a nil pointer panics
LogErrorPanics(l) == l = "nil"

\* logger.LogError in the hook.  A panic leaves the handler; net/http
\* recovers it and closes the connection: the process runs on, the request
\* gets no response.
prestop_LogError(h) ==
    IF LogErrorPanics(HookLogger)
    THEN [h EXCEPT !.pc = "panicked", !.list = <<>>, !.failures = @ + 1]
    ELSE [h EXCEPT !.logged = @ + 1, !.failures = @ + 1]

\* the hook is called: mc.ListObjectsV2 on the bucket
prestop_List ==
    /\ hook.pc = "idle"
    /\ \E l \in Listings(store) :
           hook' = [hook EXCEPT !.pc = "run", !.list = l]
    /\ UNCHANGED <<receiverVars, labelerVars, archiverVars, setupVars>>
    /\ UNCHANGED <<archiveSub, fan, loop, moreVars>>

\* the loop body for the next entry: an entry with Err is logged and
\* skipped, any other is removed by key; what RemoveObject returns is
\* dropped
prestop_Entry(rmOk) ==
    /\ hook.pc = "run"
    /\ hook.list # <<>>
    /\ LET e == Head(hook.list)
           h == [hook EXCEPT !.list = Tail(@)]
       IN  IF e.err
           THEN /\ hook' = prestop_LogError(h)
                /\ store' = store
           ELSE /\ hook' = IF rmOk THEN h
                           ELSE [h EXCEPT !.failures = @ + 1]
                /\ store' = IF rmOk
                            THEN [store EXCEPT ![e.key] = NoObject]
                            ELSE store
    /\ UNCHANGED <<req, now, nextSweep, imgSub, purgeSub, sweepVars, purgerUp>>
    /\ UNCHANGED <<labelerVars, archiverVars, setupVars, archiveSub, fan,
                   loop, moreVars>>

\* mc.RemoveBucket: it fails on a bucket that is not empty, or for a reason
\* of its own; the handler returns and the response is the implicit 200
prestop_RemoveBucket(ok) ==
    /\ hook.pc = "run"
    /\ hook.list = <<>>
    /\ IF ok
       THEN /\ \A f \in Files : ~store[f].present
            /\ hook' = [hook EXCEPT !.pc = "done", !.resp = StatusOK,
                                    !.bucket = FALSE]
       ELSE LET h == prestop_LogError(hook)
            IN  hook' = IF h.pc = "panicked" THEN h
                        ELSE [h EXCEPT !.pc = "done", !.resp = StatusOK]
    /\ UNCHANGED <<receiverVars, labelerVars, archiverVars, setupVars>>
    /\ UNCHANGED <<archiveSub, fan, loop, moreVars>>

prestop ==
    \/ prestop_List
    \/ \E rmOk \in BOOLEAN : prestop_Entry(rmOk)
    \/ \E ok \in BOOLEAN : prestop_RemoveBucket(ok)

---------------------------------------------------------------------------
(* Several Archiver instances: main names the subscription of an instance  *)
(* after its pod and its target label, the broker gives every subscription *)
(* of the labeled topic its own copy of each message published while the   *)
(* subscription exists, and the pre-stop hook deletes the subscription.    *)
(* A handler runs here in one step.                                        *)

\* the instances: pod name and target label
Archivers == { <<<<"p">>, Cat>>, <<<<"p">>, Dog>> }

\* Faulty variant: the target label is left out of the name.
SubscriptionOfPod(id) == id[1]

\* subcription = fmt.Sprintf("%s+%s", podName, *targetlabel)
SubscriptionOf(id) == id[1] \o <<"+">> \o id[2]

FanNames == { SubscriptionOf(id) : id \in Archivers }

FanPayloads == { Marshal(<<"b","/","x">>, <<Tabby, Cat>>),
                 Marshal(<<"b","/","y">>, <<Dog>>),
                 Marshal(<<"b","/","x">>, <<UpperCat>>) }

NoFan == [st |-> [id \in Archivers |-> "idle"],
          exists |-> {},
          queue |-> [n \in FanNames |-> <<>>],
          since |-> [n \in FanNames |-> 0],
          pub |-> <<>>,
          copied |-> [id \in Archivers |-> {}],
          hookErr |-> [id \in Archivers |-> FALSE],
          logged |-> [id \in Archivers |-> 0]]

\* main of an instance: archiver.New with subscribe, which creates the
\* subscription unless it exists; on an error main ends with log.Fatalf
Archiver_main(id, ok) ==
    /\ fan.st[id] # "running"
    /\ LET n == SubscriptionOf(id)
       IN  fan' = IF ~ok THEN [fan EXCEPT !.st[id] = "stopped"]
                  ELSE IF n \in fan.exists
                  THEN [fan EXCEPT !.st[id] = "running",
                                   !.hookErr[id] = FALSE]
                  ELSE [fan EXCEPT !.st[id] = "running",
                                   !.hookErr[id] = FALSE,
                                   !.exists = @ \cup {n},
                                   !.queue[n] = <<>>,
                                   !.since[n] = Len(fan.pub)]
    /\ UNCHANGED <<receiverVars, labelerVars, archiverVars, setupVars>>
    /\ UNCHANGED <<archiveSub, hook, loop, moreVars>>

\* A labeled-notification is published: every subscription that exists gets
\* its own copy.
Fan_Publish(w) ==
    /\ Len(fan.pub) < MaxFanPub
    /\ fan' = [fan EXCEPT
                 !.pub = Append(@, w),
                 !.queue = [n \in FanNames |->
                              IF n \in fan.exists
                              THEN Append(fan.queue[n],
                                     [data |-> w, acked |-> FALSE,
                                      res |-> "none"])
                              ELSE fan.queue[n]]]
    /\ UNCHANGED <<receiverVars, labelerVars, archiverVars, setupVars>>
    /\ UNCHANGED <<archiveSub, hook, loop, moreVars>>

\* The handler of instance id on message k of its subscription: defer
\* m.Ack(), parseMessage, the loop over the labels with the instance's own
\* target, writeToCloud.
Fan_Handle(id, k, ok) ==
    /\ fan.st[id] = "running"
    /\ LET n == SubscriptionOf(id)
       IN  /\ n \in fan.exists
           /\ k \in 1..Len(fan.queue[n])
           /\ ~fan.queue[n][k].acked
           /\ LET p == parseMessage(fan.queue[n][k].data)
                  res == IF p.res # "ok" THEN "bad"
                         ELSE IF WriteCalls(p.labels, id[2]) = <<>>
                         THEN "nomatch"
                         ELSE IF ok THEN "archived" ELSE "writeerr"
              IN  fan' = [fan EXCEPT
                            !.queue[n][k] = [@ EXCEPT !.acked = TRUE,
                                                      !.res = res],
                            !.copied[id] = IF res = "archived"
                                           THEN @ \cup {p.object} ELSE @]
    /\ UNCHANGED <<receiverVars, labelerVars, archiverVars, setupVars>>
    /\ UNCHANGED <<archiveSub, hook, loop, moreVars>>

\* Faulty variant: the hook leaves the subscription where it is.
HookDeletesNever(exists) == FALSE

\* else if ok { sub.Delete(ctx) }
HookDeletes(exists) == exists

\* The pre-stop hook of instance id: sub.Exists, then sub.Delete when the
\* subscription exists; an error of either call is logged.  The instance
\* is stopped after the hook.
Archiver_prestop(id, existsOk, deleteOk) ==
    /\ fan.st[id] = "running"
    /\ LET n == SubscriptionOf(id)
           stopped == [fan EXCEPT !.st[id] = "stopped"]
           failed == [stopped EXCEPT !.hookErr[id] = TRUE,
                                     !.logged[id] = 1]
       IN  fan' = IF ~existsOk THEN failed
                  ELSE IF ~HookDeletes(n \in fan.exists) THEN stopped
                  ELSE IF ~deleteOk THEN failed
                  ELSE [stopped EXCEPT !.exists = @ \ {n},
                                       !.queue[n] = <<>>]
    /\ UNCHANGED <<receiverVars, labelerVars, archiverVars, setupVars>>
    /\ UNCHANGED <<archiveSub, hook, loop, moreVars>>

---------------------------------------------------------------------------
(* The Labeler's receive loop and its context.  sub.Receive stops pulling  *)
(* when the context is done, waits for the handlers that are running and   *)
(* returns; the handlers make their calls with the package's background    *)
(* context, so a cancellation does not reach them.                         *)

NoLoop == [cancelled |-> FALSE, ret |-> "running", logged |-> 0]

\* what sub.Receive may return once its context is cancelled: nil, as the
\* client library documents, the context's error, or an error of the
\* stream that was cut
ReceiveErrors == {"nil", "canceled", "rpc"}

\* err != context.Canceled
ReceiveFailed(err) == err # "canceled"

\* LogError builds its entry with err.Error(): a nil error panics
LogErrorNilPanics(err) == err = "nil"

\* The context passed to ReceiveAndProcess is cancelled.
CancelLabeler ==
    /\ labelerUp
    /\ ~loop.cancelled
    /\ loop' = [loop EXCEPT !.cancelled = TRUE]
    /\ UNCHANGED <<receiverVars, labelerVars, archiverVars, setupVars>>
    /\ UNCHANGED <<archiveSub, hook, fan, moreVars>>

\* sub.Receive returns after the cancellation, no handler running any more;
\* then the check of the error and the LogError.  A panic here is in the
\* goroutine of main: the process ends.
Labeler_ReceiveReturns(err) ==
    /\ labelerUp
    /\ loop.cancelled /\ loop.ret = "running"
    /\ \A i \in ImgIds : lh[i].pc \in {"none", "returned"}
    /\ IF ~ReceiveFailed(err)
       THEN /\ loop' = [loop EXCEPT !.ret = "returned"]
            /\ labelerUp' = labelerUp
       ELSE IF LogErrorNilPanics(err)
       THEN /\ loop' = [loop EXCEPT !.ret = "panicked"]
            /\ labelerUp' = FALSE
       ELSE /\ loop' = [loop EXCEPT !.ret = "returned", !.logged = 1]
            /\ labelerUp' = labelerUp
    /\ UNCHANGED <<receiverVars, lh, archiverVars, setupVars>>
    /\ UNCHANGED <<archiveSub, hook, fan, moreVars>>

---------------------------------------------------------------------------
(* The labeled-notification on the wire: sendNotification marshals the     *)
(* location and the labels it was called with, parseMessage takes the      *)
(* payload apart again.  sendNotification is called with the data of an    *)
(* image message that split into a bucket and an image GetObject could     *)
(* read, and with the labels AnnotateImage returned, at least one.         *)

WireLocations ==
    { <<"b","/","x">>, <<"b","/","y">>, <<"q","/","x">>, <<"q","/","y">>,
      <<"b","/","x","y">>, <<"b","q","/","x">> }

WireLabels ==
    { <<Cat>>, <<Tabby, Cat>>, <<Bobcat, UpperCat, Cat>>, <<Cat, Cat>>,
      <<Dog, Cat>>, <<Cat, Dog>>, <<Tabby>>, <<Bobcat>>,
      <<UpperCat, Tabby>> }

NoWire == [pc |-> "idle", location |-> <<>>, labels |-> <<>>,
           data |-> JOther("invalid"),
           parsed |-> ParseResult("none", <<>>, <<>>, <<>>)]

\* sendNotification(logger, topic, labels, location): json.Marshal and the
\* publish of the bytes
Wire_Send(location, labels) ==
    /\ wire.pc = "idle"
    /\ wire' = [wire EXCEPT !.pc = "sent", !.location = location,
                            !.labels = labels,
                            !.data = Marshal(location, labels)]
    /\ UNCHANGED <<receiverVars, labelerVars, archiverVars, setupVars>>
    /\ UNCHANGED <<archiveSub, hook, fan, loop, upl, fleet>>

\* the Archiver's handler: parseMessage(m.Data)
Wire_Parse ==
    /\ wire.pc = "sent"
    /\ wire' = [wire EXCEPT !.pc = "parsed",
                            !.parsed = parseMessage(wire.data)]
    /\ UNCHANGED <<receiverVars, labelerVars, archiverVars, setupVars>>
    /\ UNCHANGED <<archiveSub, hook, fan, loop, upl, fleet>>

---------------------------------------------------------------------------
(* The Receiver and the filename of an upload.  header.Filename is what    *)
(* mime/multipart makes of the filename parameter the client sent: the     *)
(* parameter as sent, or its last path element (filepath.Base), depending  *)
(* on the Go release the instance is built with.  ServeHTTP uses it as the *)
(* object name and in the notification without looking at it.             *)

Uploads == 1..MaxUploads

\* filename parameters a client may send
RawNames ==
    { <<>>, <<"x">>, <<"y">>, <<"d","/","x">>, <<"d","/","e","/","x">>,
      <<"/">>, <<"x","/">> }

RECURSIVE TrimSlashes(_)
TrimSlashes(s) ==
    IF s # <<>> /\ s[Len(s)] = "/"
    THEN TrimSlashes(SubSeq(s, 1, Len(s) - 1))
    ELSE s

\* filepath.Base
Base(s) ==
    IF s = <<>> THEN <<".">>
    ELSE LET t == TrimSlashes(s)
         IN  IF t = <<>> THEN <<"/">>
             ELSE LET parts == Split(t) IN parts[Len(parts)]

\* Part.FileName: no filename parameter, or the parameter, or its base
FileName(raw, base) ==
    IF raw = <<>> THEN <<>> ELSE IF base THEN Base(raw) ELSE raw

\* fmt.Sprintf("%s/%s", r.bucket, header.Filename)
Notification(bucket, name) == Location(bucket, name)

\* the object store takes the name: not empty, no empty first or last
\* path element
PutAccepts(name) ==
    /\ name # <<>>
    /\ name[1] # "/"
    /\ name[Len(name)] # "/"

NoUpload == [pc |-> "idle", raw |-> <<>>, base |-> FALSE, file |-> <<>>,
             resp |-> 0, note |-> <<>>]

NoUploads == [u \in Uploads |-> NoUpload]

\* req.FormFile("file"): a part without a filename is not a file, 500;
\* every request of the instance goes through the same mime/multipart
Upload_FormFile(u, raw, base) ==
    /\ upl[u].pc = "idle"
    /\ \A v \in Uploads : upl[v].pc # "idle" => upl[v].base = base
    /\ LET name == FileName(raw, base)
       IN  upl' = [upl EXCEPT ![u] =
                IF name = <<>>
                THEN [@ EXCEPT !.pc = "done", !.raw = raw, !.base = base,
                               !.resp = StatusInternalServerError]
                ELSE [@ EXCEPT !.pc = "named", !.raw = raw, !.base = base,
                               !.file = name]]
    /\ UNCHANGED <<receiverVars, labelerVars, archiverVars, setupVars>>
    /\ UNCHANGED <<archiveSub, hook, fan, loop, wire, fleet>>

\* r.mc.PutObject and the size check: stored in full, or 500
Upload_Put(u, ok) ==
    /\ upl[u].pc = "named"
    /\ ok => PutAccepts(upl[u].file)
    /\ upl' = [upl EXCEPT ![u] =
                IF ok THEN [@ EXCEPT !.pc = "stored"]
                ELSE [@ EXCEPT !.pc = "done",
                               !.resp = StatusInternalServerError]]
    /\ UNCHANGED <<receiverVars, labelerVars, archiverVars, setupVars>>
    /\ UNCHANGED <<archiveSub, hook, fan, loop, wire, fleet>>

\* r.topic.Publish and pr.Get, then the response
Upload_Publish(u, ok) ==
    /\ upl[u].pc = "stored"
    /\ upl' = [upl EXCEPT ![u] =
                IF ok THEN [@ EXCEPT !.pc = "done", !.resp = StatusOK,
                               !.note = Notification(Bucket, upl[u].file)]
                ELSE [@ EXCEPT !.pc = "done",
                               !.resp = StatusInternalServerError]]
    /\ UNCHANGED <<receiverVars, labelerVars, archiverVars, setupVars>>
    /\ UNCHANGED <<archiveSub, hook, fan, loop, wire, fleet>>

---------------------------------------------------------------------------
(* Labeler instances.  Every instance names its subscription after the     *)
(* image topic (pc.Subscription(imageTopic) in New), so the instances of   *)
(* a deployment consume from one subscription; the pre-stop hook of an     *)
(* instance deletes the subscription of that name.  The broker drops the   *)
(* unacknowledged messages of a deleted subscription and keeps nothing for *)
(* a subscription that does not exist.                                     *)

Labelers == {"l1", "l2"}

FleetPayloads == { Location(Bucket, f) : f \in Files }

NoFleet == [st |-> [l \in Labelers |-> "idle"],
            exists |-> FALSE,
            deleted |-> FALSE,
            queue |-> <<>>,
            pub |-> 0,
            lost |-> 0,
            logged |-> [l \in Labelers |-> 0]]

\* main of an instance: labeler.New, which creates the subscription unless
\* it exists, then ReceiveAndProcess; on an error of New main ends
Labeler_main(l, ok) ==
    /\ fleet.st[l] = "idle"
    /\ fleet' = IF ~ok THEN [fleet EXCEPT !.st[l] = "failed"]
                ELSE IF fleet.exists THEN [fleet EXCEPT !.st[l] = "running"]
                ELSE [fleet EXCEPT !.st[l] = "running", !.exists = TRUE,
                                   !.deleted = FALSE, !.queue = <<>>]
    /\ UNCHANGED <<receiverVars, labelerVars, archiverVars, setupVars>>
    /\ UNCHANGED <<archiveSub, hook, fan, loop, wire, upl>>

\* An image-notification is published: it is kept for the subscription if
\* the subscription exists.
Fleet_Publish(d) ==
    /\ fleet.pub < MaxFleetPub
    /\ fleet' = IF fleet.exists
                THEN [fleet EXCEPT !.pub = @ + 1,
                         !.queue = Append(@, [data |-> d, acked |-> FALSE,
                                              by |-> "none"])]
                ELSE [fleet EXCEPT !.pub = @ + 1,
                         !.lost = IF fleet.deleted THEN @ + 1 ELSE @]
    /\ UNCHANGED <<receiverVars, labelerVars, archiverVars, setupVars>>
    /\ UNCHANGED <<archiveSub, hook, fan, loop, wire, upl>>

\* The handler of instance l on message k of the subscription, from
\* defer m.Ack() to its return.
Fleet_Handle(l, k) ==
    /\ fleet.st[l] = "running"
    /\ fleet.exists
    /\ k \in 1..Len(fleet.queue)
    /\ ~fleet.queue[k].acked
    /\ fleet' = [fleet EXCEPT !.queue[k] = [@ EXCEPT !.acked = TRUE,
                                                     !.by = l]]
    /\ UNCHANGED <<receiverVars, labelerVars, archiverVars, setupVars>>
    /\ UNCHANGED <<archiveSub, hook, fan, loop, wire, upl>>

\* the messages of the subscription no handler has acknowledged
Unacked(q) == {k \in 1..Len(q) : ~q[k].acked}

\* The pre-stop hook of instance l: pc.Subscription(*imagetopic), Exists,
\* then Delete when it exists; an error of either call is logged.  The
\* instance is stopped after the hook.
Labeler_prestop(l, existsOk, deleteOk) ==
    /\ fleet.st[l] = "running"
    /\ LET stopped == [fleet EXCEPT !.st[l] = "stopped"]
           failed == [stopped EXCEPT !.logged[l] = @ + 1]
       IN  fleet' = IF ~existsOk THEN failed
                    ELSE IF ~fleet.exists THEN stopped
                    ELSE IF ~deleteOk THEN failed
                    ELSE [stopped EXCEPT
                            !.exists = FALSE, !.deleted = TRUE,
                            !.lost = @ + Cardinality(Unacked(fleet.queue)),
                            !.queue = <<>>]
    /\ UNCHANGED <<receiverVars, labelerVars, archiverVars, setupVars>>
    /\ UNCHANGED <<archiveSub, hook, fan, loop, wire, upl>>

\* sub.Receive of a running instance returns an error because the
\* subscription is gone: ReceiveAndProcess logs it and returns, main ends
Fleet_ReceiveFails(l) ==
    /\ fleet.st[l] = "running"
    /\ ~fleet.exists
    /\ fleet' = [fleet EXCEPT !.st[l] = "failed", !.logged[l] = @ + 1]
    /\ UNCHANGED <<receiverVars, labelerVars, archiverVars, setupVars>>
    /\ UNCHANGED <<archiveSub, hook, fan, loop, wire, upl>>

---------------------------------------------------------------------------
(* Construction of the stages against the broker: Receiver.New ensures its *)
(* topic; Labeler.New, the Archiver's subscribe and Purger.New ensure      *)
(* their subscription.  A constructor suspends at each broker call.        *)

TopicNames == {"image", "labeled", "purge"}
Stages == {"receiver", "labeler", "archiver", "purger"}
Ctors == 1..MaxCtors

\* the subscription a stage receives from: the Labeler names it after the
\* image topic, the Archiver after its pod and target, the Purger after the
\* project and the purge topic
SubName(stage) ==
    CASE stage = "labeler" -> "image"
      [] stage = "archiver" -> "pod+cat"
      [] stage = "purger" -> "proj%purge"
      [] OTHER -> "none"

\* the topic of that subscription
SubTopic(stage) ==
    CASE stage = "labeler" -> "image"
      [] stage = "archiver" -> "labeled"
      [] stage = "purger" -> "purge"
      [] OTHER -> "none"

\* the topic a stage publishes to
PubTopic(stage) ==
    CASE stage = "receiver" -> "image"
      [] stage = "labeler" -> "labeled"
      [] OTHER -> "none"

Subscription(name, topic) ==
    [name |-> name, topic |-> topic, ackDeadline |-> AckDeadlineSeconds]

SubExists(name) == \E sb \in subs : sb.name = name

NoCtor == [stage |-> "none", pc |-> "idle", res |-> "none",
           cause |-> "none", created |-> FALSE, after |-> {},
           pub |-> "none"]

\* Faulty variant: the constructor creates without looking at Exists.
EnsureAlwaysCreates(exists) == TRUE

\* if !ok { ... Create ... }
EnsureNeedsCreate(exists) == ~exists

\* The constructor of a stage up to its Exists call: topic.Exists in
\* Receiver.New, sub.Exists in the others.  ok: the call returned no error.
New_Exists(c, stage, ok) ==
    /\ ctor[c].pc = "idle"
    /\ LET exists == IF stage = "receiver"
                     THEN PubTopic(stage) \in topics
                     ELSE SubExists(SubName(stage))
           started == [NoCtor EXCEPT !.stage = stage,
                          !.after = {d \in Ctors : /\ ctor[d].stage = stage
                                                   /\ ctor[d].pc = "done"
                                                   /\ ctor[d].res = "ok"}]
       IN  ctor' = [ctor EXCEPT ![c] =
                 IF ~ok
                 THEN [started EXCEPT !.pc = "done", !.res = "err",
                                      !.cause = "transport"]
                 ELSE IF EnsureNeedsCreate(exists)
                 THEN [started EXCEPT !.pc = "create"]
                 ELSE [started EXCEPT !.pc = "done", !.res = "ok"]]
    /\ UNCHANGED <<receiverVars, labelerVars, archiverVars, topics, subs>>
    /\ UNCHANGED extVars

\* pc.CreateTopic in Receiver.New, pc.CreateSubscription in the others: the
\* broker refuses a name that exists and a subscription on a missing topic.
New_Create(c, ok) ==
    /\ ctor[c].pc = "create"
    /\ LET stage == ctor[c].stage
           failed(cause) == [ctor EXCEPT ![c] = [@ EXCEPT !.pc = "done",
                                 !.res = "err", !.cause = cause]]
           made == [ctor EXCEPT ![c] = [@ EXCEPT !.pc = "done",
                                 !.res = "ok", !.created = TRUE]]
       IN  IF ~ok
           THEN /\ ctor' = failed("transport")
                /\ UNCHANGED <<topics, subs>>
           ELSE IF stage = "receiver"
           THEN IF PubTopic(stage) \in topics
                THEN /\ ctor' = failed("exists")
                     /\ UNCHANGED <<topics, subs>>
                ELSE /\ ctor' = made
                     /\ topics' = topics \cup {PubTopic(stage)}
                     /\ subs' = subs
           ELSE IF SubTopic(stage) \notin topics
                THEN /\ ctor' = failed("notfound")
                     /\ UNCHANGED <<topics, subs>>
                ELSE IF SubExists(SubName(stage))
                THEN /\ ctor' = failed("exists")
                     /\ UNCHANGED <<topics, subs>>
                ELSE /\ ctor' = made
                     /\ subs' = subs \cup
                           {Subscription(SubName(stage), SubTopic(stage))}
                     /\ topics' = topics
    /\ UNCHANGED <<receiverVars, labelerVars, archiverVars, extVars>>

\* A constructed Receiver or Labeler publishes for the first time; the
\* broker refuses a publish to a topic that does not exist.
FirstPublish(c) ==
    /\ ctor[c].pc = "done" /\ ctor[c].res = "ok"
    /\ ctor[c].stage \in {"receiver", "labeler"}
    /\ ctor[c].pub = "none"
    /\ ctor' = [ctor EXCEPT ![c].pub =
                   IF PubTopic(ctor[c].stage) \in topics
                   THEN "ok" ELSE "missing"]
    /\ UNCHANGED <<receiverVars, labelerVars, archiverVars, topics, subs>>
    /\ UNCHANGED extVars

\* the broker once every stage is constructed
AllSubscriptions ==
    { Subscription(SubName(st), SubTopic(st)) : st \in Stages \ {"receiver"} }

---------------------------------------------------------------------------
(* Initial state: the stages are constructed, nothing was uploaded.        *)

NoLabelerHandler == [pc |-> "none", labels |-> <<>>, outcome |-> "none",
                     log |-> "none", fetches |-> 0, annotates |-> 0,
                     publishes |-> 0, img |-> [size |-> 0, by |-> 0]]

\* an object left by an earlier, complete upload
UploadedObject == [present |-> TRUE, size |-> MaxSize, by |-> 0, mtime |-> 0]

Init ==
    /\ req = [r \in Reqs |-> NoRequest]
    /\ store = [f \in Files |-> NoObject]
    /\ now = 0
    /\ nextSweep = SweepMinutes
    /\ imgSub = <<>>
    /\ purgeSub = <<>>
    /\ lh = [i \in ImgIds |-> NoLabelerHandler]
    /\ labelerUp = TRUE
    /\ labeledSub = <<>>
    /\ ah = [j \in LabIds |-> NoArchiverHandler]
    /\ archiverUp = TRUE
    /\ cloud = [f \in Files |-> NoCloudObject]
    /\ target \in Targets
    /\ sweep = NoSweep
    /\ cancelled = FALSE
    /\ purgerUp = TRUE
    /\ topics = TopicNames
    /\ subs = AllSubscriptions
    /\ ctor = [c \in Ctors |-> NoCtor]
    /\ archiveSub = <<>>
    /\ hook = NoHook
    /\ fan = NoFan
    /\ loop = NoLoop
    /\ wire = NoWire
    /\ upl = NoUploads
    /\ fleet = NoFleet

\* The pipeline is running: any of the files may have been uploaded.
InitUploaded ==
    /\ req = [r \in Reqs |-> NoRequest]
    /\ store \in [Files -> {NoObject, UploadedObject}]
    /\ now = 0
    /\ nextSweep = SweepMinutes
    /\ imgSub = <<>>
    /\ purgeSub = <<>>
    /\ lh = [i \in ImgIds |-> NoLabelerHandler]
    /\ labelerUp = TRUE
    /\ labeledSub = <<>>
    /\ ah = [j \in LabIds |-> NoArchiverHandler]
    /\ archiverUp = TRUE
    /\ cloud = [f \in Files |-> NoCloudObject]
    /\ sweep = NoSweep
    /\ cancelled = FALSE
    /\ purgerUp = TRUE
    /\ topics = TopicNames
    /\ subs = AllSubscriptions
    /\ ctor = [c \in Ctors |-> NoCtor]
    /\ archiveSub = <<>>
    /\ hook = NoHook
    /\ fan = NoFan
    /\ loop = NoLoop
    /\ wire = NoWire
    /\ upl = NoUploads
    /\ fleet = NoFleet

(* The Receiver with its sweep: uploads at any time between the ticks.  *)
NextReceiver ==
    \/ \E r \in Reqs : ServeHTTP(r)
    \/ purgeOldObjects
    \/ Tick

InitReceiver == Init /\ target = Cat

SpecReceiver == InitReceiver /\ [][NextReceiver]_vars

(* The Labeler, fed by the publishers of the image topic, with the Purger *)
(* working on the bucket it reads.                                        *)
NextLabeler ==
    \/ \E d \in ImagePayloads : PublishImage(d)
    \/ \E i \in ImgIds : Labeler_Receive(i)
    \/ \E i \in ImgIds, ok \in BOOLEAN : Labeler_Fetch(i, ok)
    \/ \E i \in ImgIds : Labeler_AnnotateFail(i)
    \/ \E i \in ImgIds, labels \in LabelLists : Labeler_Annotate(i, labels)
    \/ \E i \in ImgIds, ok \in BOOLEAN : sendNotification(i, ok)
    \/ \E d \in PurgePayloads : PublishPurge(d)
    \/ \E i \in 1..MaxPurge, rmErr \in BOOLEAN : PurgerHandle(i, rmErr)

InitLabeler == InitUploaded /\ target = Cat

SpecLabeler == InitLabeler /\ [][NextLabeler]_vars

(* The Archiver, fed by the publishers of the labeled topic, with the     *)
(* Purger working on the bucket it reads.                                 *)
NextArchiver ==
    \/ \E w \in LabeledPayloads : PublishLabeled(w)
    \/ \E j \in LabIds : Archiver_Receive(j)
    \/ \E j \in LabIds, ok \in BOOLEAN : Archiver_Read(j, ok)
    \/ \E j \in LabIds, ok \in BOOLEAN : Archiver_Write(j, ok)
    \/ \E d \in PurgePayloads : PublishPurge(d)
    \/ \E i \in 1..MaxPurge, rmErr \in BOOLEAN : PurgerHandle(i, rmErr)

InitArchiver == InitUploaded /\ target \in Targets

SpecArchiver == InitArchiver /\ [][NextArchiver]_vars

(* The pipeline end to end: uploads, the Labeler on the Receiver's         *)
(* notifications, the Archiver on the Labeler's.  Every handler that can   *)
(* take a step eventually takes one, and a call that can succeed again and *)
(* again eventually does.                                                  *)
LabelerStep(i) ==
    \/ Labeler_Receive(i)
    \/ \E ok \in BOOLEAN : Labeler_Fetch(i, ok)
    \/ Labeler_AnnotateFail(i)
    \/ \E labels \in LabelLists : Labeler_Annotate(i, labels)
    \/ \E ok \in BOOLEAN : sendNotification(i, ok)

LabelerSuccess(i) ==
    \/ Labeler_Fetch(i, TRUE)
    \/ \E labels \in LabelLists : Labeler_Annotate(i, labels)
    \/ sendNotification(i, TRUE)

ArchiverStep(j) ==
    \/ Archiver_Receive(j)
    \/ \E ok \in BOOLEAN : Archiver_Read(j, ok)
    \/ \E ok \in BOOLEAN : Archiver_Write(j, ok)

ArchiverSuccess(j) == Archiver_Read(j, TRUE) \/ Archiver_Write(j, TRUE)

NextPipeline ==
    \/ \E r \in Reqs : ServeHTTP(r)
    \/ \E i \in Reqs : LabelerStep(i)
    \/ \E j \in Reqs : ArchiverStep(j)

InitPipeline == Init /\ target = Cat

SpecPipeline ==
    /\ InitPipeline
    /\ [][NextPipeline]_vars
    /\ \A i \in Reqs : WF_vars(LabelerStep(i)) /\ SF_vars(LabelerSuccess(i))
    /\ \A j \in Reqs : WF_vars(ArchiverStep(j)) /\ SF_vars(ArchiverSuccess(j))

(* The sweep and the Purger on a bucket that holds earlier uploads, with   *)
(* the broker delivering purge-notifications more than once and the        *)
(* instance being told to shut down.                                       *)
NextSweep ==
    \/ purgeOldObjects
    \/ Tick
    \/ CancelReceiver
    \/ \E d \in PurgePayloads : PublishPurge(d)
    \/ \E i \in 1..MaxPurge, rmErr \in BOOLEAN : PurgerHandle(i, rmErr)
    \/ \E i \in 1..MaxPurge : RedeliverPurge(i)

InitSweep == InitUploaded /\ target = Cat

SpecSweep == InitSweep /\ [][NextSweep]_vars

(* The constructors of the stages, in any order and interleaving, against  *)
(* a broker on which any of the topics may exist already.                  *)
InitSetup ==
    /\ req = [r \in Reqs |-> NoRequest]
    /\ store = [f \in Files |-> NoObject]
    /\ now = 0
    /\ nextSweep = SweepMinutes
    /\ imgSub = <<>>
    /\ purgeSub = <<>>
    /\ lh = [i \in ImgIds |-> NoLabelerHandler]
    /\ labelerUp = TRUE
    /\ labeledSub = <<>>
    /\ ah = [j \in LabIds |-> NoArchiverHandler]
    /\ archiverUp = TRUE
    /\ cloud = [f \in Files |-> NoCloudObject]
    /\ target = Cat
    /\ sweep = NoSweep
    /\ cancelled = FALSE
    /\ purgerUp = TRUE
    /\ topics \in SUBSET TopicNames
    /\ subs = {}
    /\ ctor = [c \in Ctors |-> NoCtor]
    /\ archiveSub = <<>>
    /\ hook = NoHook
    /\ fan = NoFan
    /\ loop = NoLoop
    /\ wire = NoWire
    /\ upl = NoUploads
    /\ fleet = NoFleet

NextSetup ==
    \/ \E c \in Ctors, stage \in Stages, ok \in BOOLEAN :
           New_Exists(c, stage, ok)
    \/ \E c \in Ctors, ok \in BOOLEAN : New_Create(c, ok)
    \/ \E c \in Ctors : FirstPublish(c)

SpecSetup == InitSetup /\ [][NextSetup]_vars

(* Publishing after the effect: the Receiver and the Labeler on its        *)
(* notifications, and the oldest Archiver with its purge-notifications.    *)
NextOrdering ==
    \/ \E r \in Reqs : ServeHTTP(r)
    \/ \E i \in Reqs : LabelerStep(i)
    \/ \E d \in ArchivePayloads : PublishArchive(d)
    \/ \E k \in 1..MaxArchive : Archiver1_Step(k)

InitOrdering == Init /\ target = Cat

SpecOrdering == InitOrdering /\ [][NextOrdering]_vars

(* The life of one image: its upload, the Labeler and the Archiver on its *)
(* notifications, the sweep and the Purger on the bucket, the clock.       *)
NextLifecycle ==
    \/ ServeHTTP(1)
    \/ LabelerStep(1)
    \/ ArchiverStep(1)
    \/ purgeOldObjects
    \/ Tick
    \/ \E d \in PurgePayloads : PublishPurge(d)
    \/ \E i \in 1..MaxPurge, rmErr \in BOOLEAN : PurgerHandle(i, rmErr)

InitLifecycle == Init /\ target = Cat

SpecLifecycle == InitLifecycle /\ [][NextLifecycle]_vars

(* The Receiver and its pre-stop hook: uploads go on while the hook runs. *)
NextHook ==
    \/ \E r \in Reqs : ServeHTTP(r)
    \/ prestop

InitHook == Init /\ target = Cat

SpecHook == InitHook /\ [][NextHook]_vars

(* Everything that touches the local store: one upload with the Labeler   *)
(* and the Archiver on its notifications, the Purger, the pre-stop hook,   *)
(* and the sweep run of an instance that found objects of an earlier       *)
(* instance in the bucket and has reached its first tick that finds them   *)
(* expired.                                                                *)
NextStore ==
    \/ ServeHTTP(1)
    \/ LabelerStep(1)
    \/ ArchiverStep(1)
    \/ purgeOldObjects
    \/ \E d \in PurgePayloads : PublishPurge(d)
    \/ \E i \in 1..MaxPurge, rmErr \in BOOLEAN : PurgerHandle(i, rmErr)
    \/ prestop

InitStore ==
    /\ req = [r \in Reqs |-> NoRequest]
    /\ store = [f \in Files |-> IF f = <<"y">> THEN UploadedObject
                                ELSE NoObject]
    /\ now = 2 * SweepMinutes
    /\ nextSweep = 2 * SweepMinutes
    /\ imgSub = <<>>
    /\ purgeSub = <<>>
    /\ lh = [i \in ImgIds |-> NoLabelerHandler]
    /\ labelerUp = TRUE
    /\ labeledSub = <<>>
    /\ ah = [j \in LabIds |-> NoArchiverHandler]
    /\ archiverUp = TRUE
    /\ cloud = [f \in Files |-> NoCloudObject]
    /\ target = Cat
    /\ sweep = NoSweep
    /\ cancelled = FALSE
    /\ purgerUp = TRUE
    /\ topics = TopicNames
    /\ subs = AllSubscriptions
    /\ ctor = [c \in Ctors |-> NoCtor]
    /\ archiveSub = <<>>
    /\ hook = NoHook
    /\ fan = NoFan
    /\ loop = NoLoop
    /\ wire = NoWire
    /\ upl = NoUploads
    /\ fleet = NoFleet

SpecStore == InitStore /\ [][NextStore]_vars

(* Duplicate delivery: the Archiver and the Purger on messages the broker *)
(* delivers more than once, over a bucket no upload changes.               *)
NextRedelivery ==
    \/ \E w \in LabeledPayloads : PublishLabeled(w)
    \/ \E j \in LabIds : ArchiverStep(j)
    \/ \E j \in LabIds : RedeliverLabeled(j)
    \/ \E d \in PurgePayloads : PublishPurge(d)
    \/ \E i \in 1..MaxPurge, rmErr \in BOOLEAN : PurgerHandle(i, rmErr)
    \/ \E i \in 1..MaxPurge : RedeliverPurge(i)

InitRedelivery == InitUploaded /\ target = Cat

SpecRedelivery == InitRedelivery /\ [][NextRedelivery]_vars

(* Archiver instances starting, working and being stopped through their *)
(* hook, while labeled-notifications are published.                        *)
NextFanout ==
    \/ \E id \in Archivers, ok \in BOOLEAN : Archiver_main(id, ok)
    \/ \E w \in FanPayloads : Fan_Publish(w)
    \/ \E id \in Archivers, k \in 1..MaxFanPub, ok \in BOOLEAN :
          Fan_Handle(id, k, ok)
    \/ \E id \in Archivers, existsOk \in BOOLEAN, deleteOk \in BOOLEAN :
          Archiver_prestop(id, existsOk, deleteOk)

InitFanout == Init /\ target = Cat

SpecFanout == InitFanout /\ [][NextFanout]_vars

(* The Labeler with a context that may be cancelled. *)
NextCancel ==
    \/ \E d \in ImagePayloads : PublishImage(d)
    \/ \E i \in ImgIds : LabelerStep(i)
    \/ CancelLabeler
    \/ \E err \in ReceiveErrors : Labeler_ReceiveReturns(err)

InitCancel == InitUploaded /\ target = Cat

SpecCancel == InitCancel /\ [][NextCancel]_vars

(* The three subscribers together: one image message through the Labeler, *)
(* the Labeler's and other publishers' labeled messages through the        *)
(* Archiver, purge messages through the Purger.  The broker does not       *)
(* duplicate deliveries here, so a second delivery of a message can only   *)
(* come from a handler that returned without acknowledging.                *)
AckImagePayloads == { <<"a">>, <<"b","/","x">> }

AckLabeledPayloads ==
    { Marshal(<<"b","/","x">>, <<Tabby, Cat>>),
      Marshal(<<"b","/","y">>, <<Bobcat>>),
      JOther("invalid"),
      JObject(<< JMember("location", JStr(<<"b","/","x">>)),
                 JMember("labels", JArr(<<>>)) >>) }

AckLabIds == 1..2

NextAck ==
    \/ \E d \in AckImagePayloads : PublishImage(d)
    \/ LabelerStep(1)
    \/ \E w \in AckLabeledPayloads : PublishLabeled(w)
    \/ \E j \in AckLabIds : ArchiverStep(j)
    \/ \E d \in PurgePayloads : PublishPurge(d)
    \/ \E i \in 1..MaxPurge, rmErr \in BOOLEAN : PurgerHandle(i, rmErr)

InitAck == InitUploaded /\ target = Cat

SpecAck == InitAck /\ [][NextAck]_vars

(* One labeled-notification from the Labeler to the Archiver. *)
NextWire ==
    \/ \E location \in WireLocations, labels \in WireLabels :
          Wire_Send(location, labels)
    \/ Wire_Parse

InitWire == Init /\ target = Cat

SpecWire == InitWire /\ [][NextWire]_vars

(* Uploads under the filenames clients may send. *)
NextNames ==
    \/ \E u \in Uploads, raw \in RawNames, base \in BOOLEAN :
          Upload_FormFile(u, raw, base)
    \/ \E u \in Uploads, ok \in BOOLEAN : Upload_Put(u, ok)
    \/ \E u \in Uploads, ok \in BOOLEAN : Upload_Publish(u, ok)

InitNames == Init /\ target = Cat

SpecNames == InitNames /\ [][NextNames]_vars

(* Labeler instances starting, working and being stopped through their *)
(* hook, while image-notifications are published.                          *)
NextFleet ==
    \/ \E l \in Labelers, ok \in BOOLEAN : Labeler_main(l, ok)
    \/ \E d \in FleetPayloads : Fleet_Publish(d)
    \/ \E l \in Labelers, k \in 1..MaxFleetPub : Fleet_Handle(l, k)
    \/ \E l \in Labelers, existsOk \in BOOLEAN, deleteOk \in BOOLEAN :
          Labeler_prestop(l, existsOk, deleteOk)
    \/ \E l \in Labelers : Fleet_ReceiveFails(l)

InitFleet == Init /\ target = Cat

SpecFleet == InitFleet /\ [][NextFleet]_vars

---------------------------------------------------------------------------
(* Claims about the Receiver. *)

PublishedBy(r) == {i \in 1..Len(imgSub) : imgSub[i].from = r}

\* C1: ServeHTTP publishes an image-notification only after PutObject
\* returned without error with the written byte count equal to the declared
\* size; when the store write fails or the sizes differ the response is 500
\* and nothing is published for that request.
C1_PublishOnlyAfterStore ==
    \A r \in Reqs :
        /\ (req[r].pc \in {"stored", "published"} \/ PublishedBy(r) # {}
              \/ req[r].cause = "publish")
               => (req[r].put = "ok" /\ req[r].n = req[r].size)
        /\ (req[r].put = "err" \/ (req[r].put = "ok" /\ req[r].n # req[r].size))
               => /\ req[r].pc = "done"
                  /\ req[r].resp = StatusInternalServerError
                  /\ PublishedBy(r) = {}

C1_Witness ==
    \E r1, r2 \in Reqs :
        /\ req[r1].cause = "incomplete" /\ req[r1].n < req[r1].size
        /\ req[r2].pc = "published" /\ PublishedBy(r2) # {}

\* C2 as stated: when ServeHTTP reports success, the local object exists
\* with the declared size and the notification was published and confirmed.
C2_SuccessImpliesObjectExists ==
    [][ \A r \in Reqs :
            ServeHTTP_Respond(r) =>
                /\ store[req[r].file].present
                /\ store[req[r].file].size = req[r].size
                /\ PublishedBy(r) # {}
      ]_vars

\* C2 amended: a success response implies that this request's PutObject
\* stored the object with the declared size and that its notification
\* "<bucket>/<filename>" was published and confirmed; a publish failure
\* yields a 500 response.
C2_SuccessAfterConfirmedPublish ==
    \A r \in Reqs :
        /\ req[r].resp = StatusOK =>
               /\ req[r].put = "ok" /\ req[r].n = req[r].size
               /\ \E i \in PublishedBy(r) :
                      imgSub[i].data = Location(Bucket, req[r].file)
        /\ req[r].cause = "publish" =>
               req[r].resp = StatusInternalServerError

C2_Witness ==
    \E r \in Reqs : req[r].resp = StatusOK /\ store[req[r].file].present

\* C3: the request handler never removes an object, not even after a failed
\* publish or a failed size check: every step that removes an object from
\* the local store is a step of the sweep or of the Purger.
C3_NoCompensatingDelete ==
    [][ /\ (\E r \in Reqs : ServeHTTP(r)) =>
              \A f \in Files : store[f].present => store'[f].present
        /\ (\E f \in Files : store[f].present /\ ~store'[f].present) =>
              \/ purgeOldObjects
              \/ \E i \in 1..MaxPurge, rmErr \in BOOLEAN : PurgerHandle(i, rmErr)
      ]_vars

C3_Witness ==
    \E r1, r2 \in Reqs :
        /\ req[r1].cause = "publish" /\ req[r1].pc = "done"
        /\ store[req[r1].file].present /\ store[req[r1].file].by = r1
        /\ req[r2].cause = "incomplete"
        /\ store[req[r2].file].present /\ store[req[r2].file].by = r2

---------------------------------------------------------------------------
(* Claims about the Labeler. *)

LabeledFrom(i) == {j \in 1..Len(labeledSub) : labeledSub[j].from = i}

\* C4 as stated: an error in fetching the object, in the annotation call or
\* in publishing the labeled-notification leaves the image-notification
\* unacknowledged.
C4_ErrorLeavesUnacked ==
    \A i \in 1..Len(imgSub) :
        lh[i].outcome \in {"fetcherr", "annerr", "puberr"}
            => ~imgSub[i].acked

\* C5 as stated: an image-notification for which the annotation service
\* returned at least one label is acknowledged only once its
\* labeled-notification has been published and confirmed.
C5_AckOnlyAfterPublish ==
    \A i \in 1..Len(imgSub) :
        (imgSub[i].acked /\ Len(lh[i].labels) > 0) => LabeledFrom(i) # {}

\* C6: an image-notification whose payload does not split on "/" into
\* exactly two segments is logged and acknowledged at its delivery, with no
\* object fetch, no annotation call and no publish, and the receive loop
\* goes on: every later message that waits for delivery can be delivered.
C6_BadLocationRejected ==
    \A i \in 1..Len(imgSub) :
        (lh[i].pc # "none" /\ Len(Split(imgSub[i].data)) # 2) =>
            /\ lh[i].pc = "returned" /\ lh[i].outcome = "bad"
            /\ lh[i].log = "error"
            /\ imgSub[i].acked
            /\ lh[i].fetches = 0 /\ lh[i].annotates = 0
            /\ lh[i].publishes = 0 /\ LabeledFrom(i) = {}
            /\ labelerUp
            /\ \A k \in 1..Len(imgSub) :
                  (~imgSub[k].acked /\ lh[k].pc = "none")
                      => ENABLED Labeler_Receive(k)

C6_Witness ==
    \E i, k \in 1..Len(imgSub) :
        /\ i < k
        /\ imgSub[i].data = <<"a","/","b","/","c">>
        /\ lh[i].outcome = "bad" /\ imgSub[i].acked
        /\ lh[k].outcome = "sent"

\* C7: when the annotation service returns zero labels the handler
\* acknowledges the image-notification and publishes nothing to the labeled
\* topic.
C7_NoLabelsNoPublish ==
    \A i \in 1..Len(imgSub) :
        (lh[i].annotates > 0 /\ lh[i].labels = <<>>) =>
            /\ lh[i].pc = "returned" /\ lh[i].outcome = "nolabels"
            /\ imgSub[i].acked
            /\ lh[i].publishes = 0 /\ LabeledFrom(i) = {}

C7_Witness ==
    \E i \in 1..Len(imgSub) :
        /\ lh[i].outcome = "nolabels" /\ lh[i].fetches = 1
        /\ imgSub[i].acked /\ labeledSub = <<>>

\* C8: every labeled-notification published by the Labeler is an object
\* whose location splits into exactly two path segments and whose labels
\* list is not empty.
C8_LabeledWellFormed ==
    \A j \in 1..Len(labeledSub) :
        labeledSub[j].from # 0 =>
            /\ labeledSub[j].data.t = "obj"
            /\ Lookup(labeledSub[j].data.f, "location").t = "str"
            /\ Len(Split(Lookup(labeledSub[j].data.f, "location").s)) = 2
            /\ Lookup(labeledSub[j].data.f, "labels").t = "arr"
            /\ Len(Lookup(labeledSub[j].data.f, "labels").a) > 0

C8_Witness ==
    \E j \in 1..Len(labeledSub) :
        /\ labeledSub[j].from # 0
        /\ Len(Lookup(labeledSub[j].data.f, "labels").a) = MaxResults

---------------------------------------------------------------------------
(* Claims about the Archiver. *)

\* a payload of the labeled topic as the Labeler writes it: an object with
\* a location of two segments and a non-empty list of string labels
WellFormed(w) ==
    /\ w.t = "obj"
    /\ Lookup(w.f, "location").t = "str"
    /\ Len(Split(Lookup(w.f, "location").s)) = 2
    /\ Lookup(w.f, "labels").t = "arr"
    /\ Len(Lookup(w.f, "labels").a) > 0
    /\ \A i \in 1..Len(Lookup(w.f, "labels").a) :
          Lookup(w.f, "labels").a[i].t = "str"

LabelsOf(w) ==
    [i \in 1..Len(Lookup(w.f, "labels").a) |-> Lookup(w.f, "labels").a[i].s]

KeyOf(w) == Split(Lookup(w.f, "location").s)[2]

\* C9 as stated: a malformed payload is logged and acknowledged, causes no
\* durable write, and the Archiver keeps running.
C9_MalformedNeverCrashes ==
    \A j \in 1..Len(labeledSub) :
        (ah[j].pc # "none" /\ ~WellFormed(labeledSub[j].data)) =>
            /\ labeledSub[j].acked
            /\ ah[j].log = "error"
            /\ ah[j].writes = 0
            /\ archiverUp

\* C10: the handler of a well-formed labeled-notification calls writeToCloud
\* once if some label contains the target as a case-sensitive substring and
\* not at all otherwise; a write that succeeds stores the bytes read from
\* the local object under the location's key.  Labels ["tabby","cat"] give
\* a copy for target "cat" and none for target "dog".
C10_CopyIffLabelMatches ==
    \A j \in 1..Len(labeledSub) :
        WellFormed(labeledSub[j].data) =>
          LET w == labeledSub[j].data
              match == \E i \in 1..Len(LabelsOf(w)) :
                          Contains(LabelsOf(w)[i], target)
          IN  /\ ah[j].calls <= 1 /\ ah[j].writes <= ah[j].calls
              /\ ah[j].calls = 1 => match
              /\ (ah[j].pc \in {"read", "write"} \/ ah[j].outcome = "archived")
                    => match
              /\ ah[j].pc = "returned" =>
                    /\ ah[j].calls = (IF match THEN 1 ELSE 0)
                    /\ ah[j].outcome \in (IF match THEN {"archived", "writeerr"}
                                                   ELSE {"nomatch"})
              /\ ah[j].outcome = "archived" =>
                    /\ ah[j].writes = 1 /\ ah[j].key = KeyOf(w)
                    /\ cloud[KeyOf(w)].present
              /\ (LabelsOf(w) = <<Tabby, Cat>> /\ ah[j].pc = "returned") =>
                    /\ target = Cat => ah[j].calls = 1
                    /\ target = Dog => ah[j].calls = 0 /\ ah[j].writes = 0

C10_Witness ==
    \E j, k \in 1..Len(labeledSub) :
        /\ LabelsOf(labeledSub[j].data) = <<Tabby, Cat>>
        /\ target = Cat /\ ah[j].outcome = "archived"
        /\ cloud[KeyOf(labeledSub[j].data)].present
        /\ LabelsOf(labeledSub[k].data) = <<Bobcat, UpperCat, Cat>>
        /\ ah[k].outcome = "archived" /\ ah[k].writes = 1

\* some label of the payload contains the target (case-sensitive substring)
SomeLabelMatches(w, tg) ==
    \E i \in 1..Len(LabelsOf(w)) : Contains(LabelsOf(w)[i], tg)

\* C11 as stated: a matching labeled-notification whose durable write
\* failed (read error, write error or close error) stays unacknowledged; it
\* is acknowledged only once the durable write has completed.
C11_WriteFailureLeavesUnacked ==
    \A j \in 1..Len(labeledSub) :
        /\ ah[j].outcome = "writeerr" => ~labeledSub[j].acked
        /\ (WellFormed(labeledSub[j].data) /\ labeledSub[j].acked
               /\ SomeLabelMatches(labeledSub[j].data, target))
              => ah[j].outcome = "archived"

\* C12: when no label of a well-formed labeled-notification contains the
\* target, the handler returns at the delivery and the message is
\* acknowledged; the delivery reads nothing from the local store, writes
\* nothing to the durable store, publishes nothing and logs no error.
C12_NoMatchNoEffect ==
    /\ [](\A j \in 1..Len(labeledSub) :
            (ah[j].pc # "none" /\ WellFormed(labeledSub[j].data)
               /\ ~SomeLabelMatches(labeledSub[j].data, target)) =>
                /\ ah[j].pc = "returned" /\ ah[j].outcome = "nomatch"
                /\ ah[j].log = "none"
                /\ labeledSub[j].acked
                /\ ah[j].calls = 0 /\ ah[j].writes = 0)
    /\ [][ \A j \in LabIds :
              (Archiver_Receive(j) /\ WellFormed(labeledSub[j].data)
                 /\ ~SomeLabelMatches(labeledSub[j].data, target)) =>
                  /\ cloud' = cloud /\ store' = store
                  /\ imgSub' = imgSub /\ purgeSub' = purgeSub
                  /\ Len(labeledSub') = Len(labeledSub)
                  /\ \A k \in 1..Len(labeledSub) :
                        labeledSub'[k].data = labeledSub[k].data
                  /\ archiverUp'
          ]_vars

C12_Witness ==
    \E j \in 1..Len(labeledSub) :
        /\ LabelsOf(labeledSub[j].data) = <<UpperCat>> /\ target = Cat
        /\ store[KeyOf(labeledSub[j].data)].present
        /\ ah[j].outcome = "nomatch" /\ labeledSub[j].acked
        /\ ~cloud[KeyOf(labeledSub[j].data)].present

---------------------------------------------------------------------------
(* Claims about the Purger and the sweep. *)

\* C13: every delivery of a purge-notification ends with the message
\* acknowledged and the receive loop running, whether RemoveObject succeeded
\* or not; a purge for a key that is not in the store changes nothing and
\* is at most logged.  An acknowledged message is not handled again unless
\* the broker delivers it again.
C13_PurgeAlwaysAcked ==
    /\ [][ \A i \in 1..MaxPurge, rmErr \in BOOLEAN :
              PurgerHandle(i, rmErr) =>
                  /\ purgeSub'[i].acked
                  /\ purgeSub'[i].res \in {"bad", "rmerr", "removed"}
                  /\ purgerUp'
                  /\ \A f \in Files :
                        ~store[f].present => store'[f] = store[f]
          ]_vars
    /\ [](\A i \in 1..Len(purgeSub) :
             purgeSub[i].acked =>
                 \A rmErr \in BOOLEAN : ~ENABLED PurgerHandle(i, rmErr))
    /\ []purgerUp

C13_Witness ==
    \E i \in 1..Len(purgeSub) :
        /\ purgeSub[i].data = Location(Bucket, <<"y">>)
        /\ ~store[<<"y">>].present
        /\ purgeSub[i].n = 2 /\ purgeSub[i].res = "rmerr"
        /\ purgeSub[i].acked /\ purgerUp

\* C14: a sweep run calls RemoveObject for exactly those listed objects whose
\* age, the time taken at the start of the run minus the listed last-modified
\* time, is strictly greater than five minutes, and changes the store in no
\* other way: an object listed as modified 6 minutes before is removed (its
\* RemoveObject is called), one modified 4 or exactly 5 minutes before is
\* retained.
C14_SweepRemovesExactlyExpired ==
    /\ [](\A k \in 1..Len(sweep.done) :
             LET e == sweep.done[k]
                 age == sweep.t - e.mtime
             IN  e.res # "listerr" =>
                   /\ (e.res \in {"removed", "rmerr"}) <=> (age > 5)
                   /\ (e.res = "kept") <=> (age <= 5)
                   /\ age = 6 => e.res \in {"removed", "rmerr"}
                   /\ age \in {4, 5} => e.res = "kept")
    /\ [][ \A rmOk \in BOOLEAN :
              purgeOldObjects_Entry(rmOk) =>
                  LET e == Head(sweep.list)
                  IN  \A f \in Files :
                        /\ store'[f] # store[f] =>
                              /\ ~e.err /\ f = e.key
                              /\ sweep.t - e.mtime > 5
                              /\ store'[f] = NoObject
                        /\ (~e.err /\ f = e.key /\ rmOk
                              /\ sweep.t - e.mtime > 5)
                              => ~store'[f].present
          ]_vars
    /\ [][ purgeOldObjects_List => store' = store ]_vars

C14_Witness ==
    /\ sweep.pc = "idle" /\ sweep.t = 10
    /\ \E k1, k2 \in 1..Len(sweep.done) :
          /\ sweep.done[k1].res = "removed"
          /\ sweep.t - sweep.done[k1].mtime = 6
          /\ ~store[sweep.done[k1].key].present
          /\ sweep.done[k2].res = "kept"
          /\ sweep.t - sweep.done[k2].mtime = 5
          /\ store[sweep.done[k2].key].present

\* C15: the sweep recurs for as long as the instance runs: the ticks are
\* five minutes apart, every tick starts a run of purgeOldObjects (a due run
\* is never skipped and waits for nothing but the run before it), a run is
\* followed by the next tick, and a run lists the whole bucket.
C15_SweepRecurs ==
    /\ [](/\ nextSweep = SweepMinutes * (sweep.started + 1)
          /\ now <= nextSweep
          /\ sweep.t = SweepMinutes * sweep.started
          /\ (now >= nextSweep /\ sweep.pc = "idle")
                => ENABLED purgeOldObjects_List)
    /\ [][ purgeOldObjects_List =>
              /\ nextSweep' = nextSweep + 5
              /\ sweep'.t = now
              /\ (\A k \in 1..Len(sweep'.list) : ~sweep'.list[k].err) =>
                     {sweep'.list[k].key : k \in 1..Len(sweep'.list)}
                        = {f \in Files : store[f].present}
          ]_vars

C15_Witness ==
    /\ sweep.started = 2 /\ sweep.pc = "idle" /\ now = 10
    /\ \E k \in 1..Len(sweep.done) : sweep.done[k].res = "removed"
    /\ \A i \in 1..Len(purgeSub) : ~purgeSub[i].acked

\* C16 as stated: once the Receiver instance is cancelled no further sweep
\* run starts.
C16_NoSweepAfterCancel ==
    [][ cancelled => ~purgeOldObjects_List ]_vars

---------------------------------------------------------------------------
(* Claims about the construction of the stages. *)

\* C17: ensuring a subscription a second time is idempotent: a constructor
\* of a subscribing stage that starts after another constructor of the same
\* stage has returned without error, and whose broker calls do not fail in
\* transport, returns without error and creates nothing, and the broker
\* holds exactly one subscription of that name, with a 60 s ack deadline.
C17_EnsureSubscriptionIdempotent ==
    \A c \in Ctors :
        (/\ ctor[c].pc = "done"
         /\ ctor[c].stage \in Stages \ {"receiver"}
         /\ ctor[c].after # {}
         /\ ctor[c].cause # "transport") =>
            /\ ctor[c].res = "ok" /\ ~ctor[c].created
            /\ Cardinality({sb \in subs :
                               sb.name = SubName(ctor[c].stage)}) = 1
            /\ \A sb \in subs :
                  sb.name = SubName(ctor[c].stage) =>
                      /\ sb.ackDeadline = 60
                      /\ sb.topic = SubTopic(ctor[c].stage)

C17_Witness ==
    \E c, d \in Ctors :
        /\ ctor[c].stage = "archiver" /\ ctor[c].created
        /\ ctor[d].stage = "archiver" /\ c \in ctor[d].after
        /\ ctor[d].pc = "done" /\ ctor[d].res = "ok"
        /\ Cardinality(subs) = 1

\* C18 as stated: whatever the order in which the stages are constructed, no
\* constructor fails because a topic is missing and no stage publishes to a
\* topic that does not exist.
C18_AnyStartOrder ==
    \A c \in Ctors :
        /\ ctor[c].cause # "notfound"
        /\ ctor[c].pub # "missing"

\* C19: purge deliveries (duplicates included) and sweep runs on the same
\* object interleave safely: once a RemoveObject of either has succeeded the
\* object is absent, a RemoveObject on an object the other has removed
\* changes nothing, every delivery of a purge-notification ends with the
\* message acknowledged and the Purger running, and a sweep run goes on to
\* its next entry and the ticker to its next tick.
C19_PurgeSweepRaceSafe ==
    /\ [](\A f \in Files :
             store[f].present =>
                 /\ \A i \in 1..Len(purgeSub) :
                       ~(/\ purgeSub[i].data = Location(Bucket, f)
                         /\ purgeSub[i].res = "removed")
                 /\ \A k \in 1..Len(sweep.done) :
                       ~(/\ sweep.done[k].key = f
                         /\ sweep.done[k].res = "removed"))
    /\ [](purgerUp /\ ((now >= nextSweep /\ sweep.pc = "idle")
                          => ENABLED purgeOldObjects_List))
    /\ [][ \A i \in 1..MaxPurge, rmErr \in BOOLEAN :
              PurgerHandle(i, rmErr) =>
                  /\ purgeSub'[i].acked /\ purgeSub'[i].n = purgeSub[i].n + 1
                  /\ sweep' = sweep /\ nextSweep' = nextSweep
                  /\ \A f \in Files : ~store'[f].present \/ store'[f] = store[f]
          ]_vars
    /\ [][ \A rmOk \in BOOLEAN :
              purgeOldObjects_Entry(rmOk) =>
                  /\ sweep'.list = Tail(sweep.list)
                  /\ Len(sweep'.done) = Len(sweep.done) + 1
                  /\ purgeSub' = purgeSub /\ purgerUp'
                  /\ \A f \in Files : ~store'[f].present \/ store'[f] = store[f]
          ]_vars

C19_Witness ==
    /\ sweep.pc = "run" /\ sweep.started = 2
    /\ Head(sweep.list).key = <<"x">>
    /\ Expired(sweep.t, Head(sweep.list).mtime)
    /\ ~store[<<"x">>].present
    /\ \E i \in 1..Len(purgeSub) :
          /\ purgeSub[i].data = Location(Bucket, <<"x">>)
          /\ purgeSub[i].n = 2 /\ purgeSub[i].acked
          /\ purgeSub[i].res = "removed"

---------------------------------------------------------------------------
(* Claims about the pipeline end to end. *)

\* C20 as stated: an upload that was answered with success is eventually in
\* the durable store under its key, unless the annotation of its image
\* returned no label that contains the target.
C20_EventuallyArchived ==
    \A r \in Reqs :
        (req[r].resp = StatusOK) ~>
            \/ (req[r].file \in Files /\ cloud[req[r].file].present)
            \/ \E i \in PublishedBy(r) :
                  /\ lh[i].annotates > 0
                  /\ ~\E k \in 1..Len(lh[i].labels) :
                         Contains(lh[i].labels[k], target)

---------------------------------------------------------------------------
(* Claims about the lifetime of a local object. *)

\* the last sweep run went through without a listing error and without a
\* failed RemoveObject
SweepClean ==
    /\ sweep.pc = "idle" /\ sweep.started > 0
    /\ \A k \in 1..Len(sweep.done) :
          sweep.done[k].res \notin {"listerr", "rmerr"}

CompleteUpload(b) ==
    \/ b = [size |-> UploadedObject.size, by |-> UploadedObject.by]
    \/ /\ b.by \in Reqs
       /\ req[b.by].put = "ok"
       /\ req[b.by].n = req[b.by].size
       /\ b.size = req[b.by].size

\* C22 as stated: whatever the Labeler or the Archiver read from the local
\* store on a notification are the bytes of a completely written upload
\* whose size matched its declared size, in every interleaving of uploads
\* of the same filename.
C22_NoPartialRead ==
    /\ \A i \in 1..Len(imgSub) :
          lh[i].fetches > 0 => CompleteUpload(lh[i].img)
    /\ \A j \in 1..Len(labeledSub) :
          ah[j].pc = "write" => CompleteUpload(ah[j].buf)

---------------------------------------------------------------------------
(* Claims about the order of effect and publish. *)

\* C23: every stage publishes after its effect.  An image-notification of a
\* request exists only when the request's PutObject returned with the
\* declared size; a labeled-notification of an image-notification only when
\* its handler fetched the object and got the annotation, both without
\* error; and the oldest Archiver puts a purge-notification on the purge
\* topic only from a handler whose durable write was closed without error,
\* the object then being in the durable store.
C23_PublishAfterEffect ==
    /\ [](\A r \in Reqs :
             PublishedBy(r) # {} =>
                 req[r].put = "ok" /\ req[r].n = req[r].size)
    /\ [](\A i \in 1..Len(imgSub) :
             LabeledFrom(i) # {} =>
                 lh[i].fetches > 0 /\ lh[i].annotates > 0)
    /\ [](\A k \in 1..Len(archiveSub) :
             archiveSub[k].h.purges > 0 => archiveSub[k].h.closed)
    /\ [][ Len(purgeSub') > Len(purgeSub) =>
              \E k \in 1..Len(archiveSub) :
                  LET mparts == Split(archiveSub[k].data)
                  IN  /\ archiveSub[k].h.pc = "publish"
                      /\ archiveSub[k].h.closed
                      /\ cloud[mparts[2]] =
                            [present |-> TRUE,
                             size |-> archiveSub[k].h.buf.size,
                             by |-> archiveSub[k].h.buf.by]
                      /\ purgeSub'[Len(purgeSub')].data = archiveSub[k].data
          ]_vars

C23_Witness ==
    /\ \E r \in Reqs : PublishedBy(r) # {}
    /\ \E i \in 1..Len(imgSub) : LabeledFrom(i) # {}
    /\ \E k \in 1..Len(archiveSub) :
          /\ archiveSub[k].h.purges = 1 /\ archiveSub[k].h.outcome = "purged"
          /\ Len(purgeSub) = 1 /\ purgeSub[1].data = archiveSub[k].data

\* C24 as stated: the local object of an upload is not deleted, by a purge
\* or by the sweep, before the upload's image-notification has been handled
\* by the Labeler and every labeled-notification made from it has been
\* handled by the Archiver.
C24_DeletedOnlyAfterHandled ==
    \A i \in 1..Len(imgSub) :
        (imgSub[i].from \in Reqs
           /\ ~store[req[imgSub[i].from].file].present) =>
            /\ imgSub[i].acked /\ lh[i].pc = "returned"
            /\ \A j \in LabeledFrom(i) :
                  labeledSub[j].acked /\ ah[j].pc = "returned"

\* C24: the notifications of an image come in the order Uploaded, Labeled,
\* Archived: a labeled-notification is made from an image-notification whose
\* object was fetched and annotated, and an object is in the durable store
\* only by a handler of a labeled-notification for its key.  The deletion of
\* the local object is not ordered with them: an object leaves the bucket
\* only by the sweep, when the run lists it as modified more than five
\* minutes before the run, or by the Purger on a purge-notification for its
\* key, whether or not its notifications have been handled.
C24_DeletionIndependentOfProgress ==
    /\ [](\A j \in 1..Len(labeledSub) :
             labeledSub[j].from \in 1..Len(imgSub) =>
                 /\ lh[labeledSub[j].from].fetches > 0
                 /\ lh[labeledSub[j].from].annotates > 0)
    /\ [](\A f \in Files :
             cloud[f].present =>
                 \E j \in 1..Len(labeledSub) :
                     ah[j].writes > 0 /\ ah[j].key = f)
    /\ [][ \A f \in Files :
              (store[f].present /\ ~store'[f].present) =>
                  \/ /\ sweep.pc = "run"
                     /\ Head(sweep.list).key = f
                     /\ sweep.t - Head(sweep.list).mtime > RetentionMinutes
                     /\ sweep'.done = Append(sweep.done,
                            [key |-> f, mtime |-> Head(sweep.list).mtime,
                             res |-> "removed"])
                  \/ \E i \in 1..Len(purgeSub) :
                        /\ ~purgeSub[i].acked
                        /\ purgeSub[i].data = Location(Bucket, f)
                        /\ purgeSub'[i].res = "removed"
                        /\ purgeSub'[i].n = purgeSub[i].n + 1
          ]_vars

C24_Witness ==
    /\ req[1].resp = StatusOK /\ req[1].file = <<"x">>
    /\ ~store[<<"x">>].present
    /\ \E k \in 1..Len(sweep.done) :
          sweep.done[k].key = <<"x">> /\ sweep.done[k].res = "removed"
    /\ purgeSub = <<>>
    /\ imgSub[1].from = 1 /\ ~imgSub[1].acked /\ lh[1].pc = "none"

---------------------------------------------------------------------------
(* Claims about the pre-stop hooks. *)

\* C29 as stated: the Receiver's pre-stop hook is best-effort: a failure of
\* the listing, of a delete or of the bucket removal is at most logged; the
\* handler goes on to its end and the response is the success it would have
\* been without the failure.
C29_HookBestEffort ==
    /\ hook.pc # "panicked"
    /\ hook.pc = "done" => hook.resp = StatusOK

---------------------------------------------------------------------------
(* Claims about who changes the local store. *)

\* C25: no step of a Labeler handler and no step of an Archiver handler
\* changes the local store: a step that changes it is a step of neither.  An object is created or overwritten only by the
\* PutObject of a Receiver request, and an object is deleted only by the
\* Purger on a purge-notification, by the sweep, or by the Receiver's
\* pre-stop hook.
C25_HandlersReadOnly ==
    /\ [][ store' # store =>
              /\ ~\E i \in ImgIds : LabelerStep(i)
              /\ ~\E j \in LabIds : ArchiverStep(j)
          ]_vars
    /\ [][ \A f \in Files :
              store'[f] # store[f] =>
                  IF store'[f].present
                  THEN \E r \in Reqs, size \in Sizes, n \in 0..MaxSize :
                          ServeHTTP_Put(r, f, size, n)
                  ELSE \/ purgeOldObjects_Entry(TRUE)
                       \/ \E i \in 1..MaxPurge : PurgerHandle(i, FALSE)
                       \/ prestop_Entry(TRUE)
          ]_vars

C25_Witness ==
    /\ lh[1].fetches = 1 /\ lh[1].outcome = "sent"
    /\ ah[1].writes = 1 /\ ah[1].outcome = "archived"
    /\ ah[1].key = <<"x">> /\ cloud[<<"x">>].by = 1
    /\ store[<<"x">>] = [present |-> TRUE, size |-> req[1].size, by |-> 1,
                         mtime |-> now]
    /\ ~store[<<"y">>].present /\ hook.pc = "run"

---------------------------------------------------------------------------
(* Claims about duplicate delivery. *)

\* C26: a labeled-notification delivered to the Archiver again, with the
\* local object as it was, leaves the durable store as the first delivery
\* left it: the durable object of a handler that wrote once or more holds
\* the bytes of the local object, and a write of a later delivery changes
\* nothing in the durable store.  A purge-notification delivered to the
\* Purger again after it removed the object leaves the local store as the
\* first delivery left it.
C26_DuplicateDeliveryIdempotent ==
    /\ [](\A j \in 1..Len(labeledSub) :
             ah[j].writes >= 1 =>
                 cloud[ah[j].key] =
                    [present |-> TRUE, size |-> UploadedObject.size,
                     by |-> UploadedObject.by])
    /\ [][ \A j \in LabIds :
              (ah[j].writes >= 1 /\ Archiver_Write(j, TRUE)) =>
                  cloud' = cloud
          ]_vars
    /\ [][ \A i \in 1..MaxPurge, rmErr \in BOOLEAN :
              (i \in 1..Len(purgeSub) /\ purgeSub[i].n >= 1
                 /\ purgeSub[i].res = "removed" /\ PurgerHandle(i, rmErr)) =>
                  store' = store
          ]_vars

C26_Witness ==
    /\ \E j \in 1..Len(labeledSub) :
          /\ ah[j].writes = 2 /\ ah[j].outcome = "archived"
          /\ labeledSub[j].acked
          /\ cloud[ah[j].key].present
    /\ \E i \in 1..Len(purgeSub) :
          /\ purgeSub[i].n = 2 /\ purgeSub[i].res = "removed"
          /\ purgeSub[i].acked
          /\ purgeSub[i].data = Location(Bucket, <<"x">>)
          /\ ~store[<<"x">>].present

---------------------------------------------------------------------------
(* Claims about several Archiver instances. *)

\* C27: two Archiver instances with different identities have different
\* subscriptions; the subscription of an instance holds, in order, every
\* labeled-notification published since the subscription was created; an
\* instance makes its copy for exactly the messages of its subscription with
\* a label that contains its own target; and a handler of one instance
\* changes nothing in the subscription or the copies of the other, whatever
\* it acknowledges.
C27_FanoutIndependent ==
    /\ [](\A id1, id2 \in Archivers :
             id1 # id2 => SubscriptionOf(id1) # SubscriptionOf(id2))
    /\ [](\A n \in fan.exists :
             [k \in 1..Len(fan.queue[n]) |-> fan.queue[n][k].data]
                = SubSeq(fan.pub, fan.since[n] + 1, Len(fan.pub)))
    /\ [](\A id \in Archivers :
             LET n == SubscriptionOf(id)
             IN  /\ \A k \in 1..Len(fan.queue[n]) :
                       fan.queue[n][k].acked =>
                           (fan.queue[n][k].res \in {"archived", "writeerr"}
                              <=> SomeLabelMatches(fan.queue[n][k].data,
                                                   id[2]))
                 /\ \A f \in fan.copied[id] :
                       \E k \in 1..Len(fan.pub) :
                           /\ KeyOf(fan.pub[k]) = f
                           /\ SomeLabelMatches(fan.pub[k], id[2]))
    /\ [][ \A id \in Archivers, k \in 1..MaxFanPub, ok \in BOOLEAN :
              Fan_Handle(id, k, ok) =>
                  \A other \in Archivers \ {id} :
                      /\ fan'.queue[SubscriptionOf(other)]
                            = fan.queue[SubscriptionOf(other)]
                      /\ fan'.copied[other] = fan.copied[other]
                      /\ fan'.st[other] = fan.st[other]
          ]_vars

C27_Witness ==
    LET c == <<<<"p">>, Cat>>
        d == <<<<"p">>, Dog>>
    IN  /\ fan.st[c] = "running" /\ fan.st[d] = "running"
        /\ Len(fan.pub) = 2
        /\ fan.since[SubscriptionOf(c)] = 0
        /\ fan.since[SubscriptionOf(d)] = 1
        /\ Len(fan.queue[SubscriptionOf(c)]) = 2
        /\ Len(fan.queue[SubscriptionOf(d)]) = 1
        /\ fan.queue[SubscriptionOf(c)][1].res = "archived"
        /\ fan.queue[SubscriptionOf(c)][2].res = "nomatch"
        /\ fan.queue[SubscriptionOf(d)][1].res = "archived"
        /\ fan.copied[c] = {<<"x">>} /\ fan.copied[d] = {<<"y">>}

\* C28: the pre-stop hook of an Archiver instance deletes the subscription
\* of that instance when it exists: whatever instances were started and
\* stopped through the hook, the broker holds no subscription of a stopped
\* instance whose hook met no broker error.  The hook touches the
\* subscription of no other instance, and a failure in it is logged and
\* changes nothing at the broker.
C28_HookDeletesOwnSubscription ==
    /\ [](\A id \in Archivers :
             (fan.st[id] = "stopped" /\ ~fan.hookErr[id]) =>
                 SubscriptionOf(id) \notin fan.exists)
    /\ [][ \A id \in Archivers, existsOk \in BOOLEAN, deleteOk \in BOOLEAN :
              Archiver_prestop(id, existsOk, deleteOk) =>
                  /\ fan'.exists \in {fan.exists,
                                      fan.exists \ {SubscriptionOf(id)}}
                  /\ \A other \in Archivers \ {id} :
                        /\ fan'.queue[SubscriptionOf(other)]
                              = fan.queue[SubscriptionOf(other)]
                        /\ fan'.st[other] = fan.st[other]
                  /\ fan'.hookErr[id] =>
                        /\ fan'.logged[id] = 1
                        /\ fan'.exists = fan.exists
                        /\ fan'.queue = fan.queue
          ]_vars

C28_Witness ==
    LET c == <<<<"p">>, Cat>>
        d == <<<<"p">>, Dog>>
    IN  /\ fan.st[c] = "stopped" /\ ~fan.hookErr[c]
        /\ fan.copied[c] # {}
        /\ SubscriptionOf(c) \notin fan.exists
        /\ fan.st[d] = "stopped" /\ fan.hookErr[d] /\ fan.logged[d] = 1
        /\ SubscriptionOf(d) \in fan.exists
        /\ Len(fan.queue[SubscriptionOf(d)]) = 2

---------------------------------------------------------------------------
(* Claims about cancellation. *)

\* C30 as stated: once the context of the Labeler's receive loop is
\* cancelled no further message is dispatched, a handler that is running
\* goes on to its return, and ReceiveAndProcess then returns: it has
\* returned only with no handler running, and it does not end in a panic.
C30_CancelStopsLoop ==
    /\ loop.ret # "panicked"
    /\ loop.ret = "returned" =>
          /\ loop.cancelled
          /\ \A i \in ImgIds : lh[i].pc \in {"none", "returned"}

---------------------------------------------------------------------------
(* Claims about acknowledgement. *)

\* the handler invocation of a message returns in this step
LabelerReturns(i) == lh[i].pc # "returned" /\ lh'[i].pc = "returned"
ArchiverReturns(j) == ah[j].pc # "returned" /\ ah'[j].pc = "returned"

\* C31: every handler invocation of Labeler, Archiver and Purger that
\* returns acknowledges its message exactly once, on every path: the step
\* in which the handler returns is the step in which its message, unacked
\* until then, becomes acked, and no other step of a running process
\* acknowledges; so a returned handler's message is acked and no message
\* is delivered a second time.
C31_ReturnAcksOnce ==
    /\ [][ /\ \A i \in 1..Len(imgSub) :
               /\ LabelerReturns(i)
                     => ~imgSub[i].acked /\ imgSub'[i].acked
               /\ imgSub'[i].acked # imgSub[i].acked
                     => LabelerReturns(i) \/ lh'[i].pc = "crashed"
               /\ lh[i].pc = "returned" => lh'[i].pc = "returned"
           /\ \A j \in 1..Len(labeledSub) :
               /\ ArchiverReturns(j)
                     => ~labeledSub[j].acked /\ labeledSub'[j].acked
               /\ labeledSub'[j].acked # labeledSub[j].acked
                     => ArchiverReturns(j) \/ ah'[j].pc = "crashed"
               /\ ah[j].pc = "returned" => ah'[j].pc = "returned"
           /\ \A k \in 1..Len(purgeSub) :
               /\ purgeSub'[k].n # purgeSub[k].n
                     => ~purgeSub[k].acked /\ purgeSub'[k].acked
               /\ purgeSub'[k].acked # purgeSub[k].acked
                     => purgeSub'[k].n = purgeSub[k].n + 1 ]_vars
    /\ [](/\ \A i \in 1..Len(imgSub) :
               lh[i].pc = "returned" => imgSub[i].acked
           /\ \A j \in 1..Len(labeledSub) :
               ah[j].pc = "returned" => labeledSub[j].acked
           /\ \A k \in 1..Len(purgeSub) :
               /\ purgeSub[k].n <= 1
               /\ purgeSub[k].n = 1 => purgeSub[k].acked)

\* a Labeler handler returned on an error, an Archiver handler returned
\* after a failed durable write and another on a bad message, and the
\* Purger's RemoveObject failed: all four messages are acked
C31_Witness ==
    /\ Len(imgSub) >= 1 /\ lh[1].pc = "returned" /\ lh[1].log = "error"
    /\ imgSub[1].acked
    /\ Len(labeledSub) >= 2
    /\ ah[1].pc = "returned" /\ ah[1].outcome = "writeerr"
    /\ ah[2].pc = "returned" /\ ah[2].outcome = "bad"
    /\ labeledSub[1].acked /\ labeledSub[2].acked
    /\ Len(purgeSub) >= 1 /\ purgeSub[1].res = "rmerr" /\ purgeSub[1].acked

---------------------------------------------------------------------------
(* Claims about the wire formats. *)

\* C32: the labeled-notification round-trips between Labeler and Archiver:
\* for a location with exactly two segments and a non-empty label list,
\* parseMessage applied to the JSON sendNotification produces returns that
\* bucket, that key and the same labels in the same order, with no error.
C32_WireRoundTrip ==
    /\ wire.pc = "parsed"
    /\ Len(Split(wire.location)) = 2
    /\ Len(wire.labels) > 0
    => wire.parsed = ParseResult("ok", Split(wire.location)[1],
                                 Split(wire.location)[2], wire.labels)

\* three labels for q/y went over the wire and came back
C32_Witness ==
    /\ wire.pc = "parsed"
    /\ wire.location = <<"q","/","y">>
    /\ wire.labels = <<Bobcat, UpperCat, Cat>>
    /\ wire.parsed.res = "ok"
    /\ wire.parsed.object = <<"y">>
    /\ Len(wire.parsed.labels) = 3

\* C33 as stated: every image-notification published by the Receiver is
\* the text "<bucket>/<filename>" and splits on "/" into exactly two
\* segments, for every accepted upload filename.
C33_NotificationTwoSegments ==
    \A u \in Uploads :
        upl[u].note # <<>> =>
            /\ upl[u].note = Location(Bucket, upl[u].file)
            /\ Len(Split(upl[u].note)) = 2

---------------------------------------------------------------------------
(* Claims about the durable store. *)

\* the bytes of a local object, as GetObject and ReadAll deliver them
BytesOf(o) == [size |-> o.size, by |-> o.by]

\* C34: the durable store only ever holds archived images that matched: a
\* key is present in the Archiver's durable bucket only if the Archiver
\* handled a labeled-notification whose location key it is and one of whose
\* labels contains the target, and the stored bytes are the bytes that
\* handler read from the local object of the location.
C34_DurableOnlyMatched ==
    /\ [](\A k \in Files :
            cloud[k].present =>
                \E j \in 1..Len(labeledSub) :
                    /\ WellFormed(labeledSub[j].data)
                    /\ KeyOf(labeledSub[j].data) = k
                    /\ SomeLabelMatches(labeledSub[j].data, target)
                    /\ ah[j].writes = 1 /\ ah[j].key = k
                    /\ BytesOf(cloud[k]) = ah[j].buf)
    /\ [][\A j \in 1..Len(labeledSub) :
            ah[j].pc = "read" /\ ah'[j].pc = "write" =>
                LET p == parseMessage(labeledSub[j].data)
                IN  /\ p.res = "ok" /\ p.bucket = Bucket
                    /\ store[p.object].present
                    /\ ah'[j].buf = BytesOf(store[p.object])]_vars

\* an image that matched is in the durable store with the bytes read,
\* while a handled notification without a matching label left its key
\* out of it
C34_Witness ==
    \E j, n \in 1..Len(labeledSub) :
        /\ ah[j].outcome = "archived" /\ ah[j].key = <<"y">>
        /\ cloud[<<"y">>].present
        /\ BytesOf(cloud[<<"y">>]) = ah[j].buf /\ ah[j].buf.size = MaxSize
        /\ WellFormed(labeledSub[n].data)
        /\ KeyOf(labeledSub[n].data) = <<"x">>
        /\ ah[n].outcome = "nomatch"
        /\ ~cloud[<<"x">>].present

\* C35: when the Archiver cannot read the local object of a matching
\* labeled-notification (the sweep or a purge deleted it, or the read
\* fails), the durable store is left unchanged: no object is created under
\* the key and an object already there is neither overwritten nor
\* truncated.
C35_FailedReadLeavesDurable ==
    [][\A j \in 1..Len(labeledSub) :
          ah[j].pc = "read" /\ ah'[j].pc # "read" /\ ah'[j].pc # "write"
             => /\ ah'[j].outcome = "writeerr" /\ ah'[j].writes = ah[j].writes
                /\ cloud' = cloud]_vars

\* the image was archived, a purge removed the local object, and the
\* handler of a second notification for it failed at the read: the
\* durable object still holds the bytes of the first
C35_Witness ==
    /\ Len(labeledSub) = 2 /\ Len(purgeSub) = 1
    /\ WellFormed(labeledSub[1].data) /\ WellFormed(labeledSub[2].data)
    /\ KeyOf(labeledSub[1].data) = <<"x">>
    /\ KeyOf(labeledSub[2].data) = <<"x">>
    /\ ah[1].outcome = "archived"
    /\ purgeSub[1].res = "removed" /\ ~store[<<"x">>].present
    /\ ah[2].pc = "returned" /\ ah[2].outcome = "writeerr"
    /\ ah[2].calls = 1 /\ ah[2].writes = 0
    /\ cloud[<<"x">>].present /\ cloud[<<"x">>].size = MaxSize
    /\ ~cloud[<<"y">>].present

---------------------------------------------------------------------------
(* Claims about Labeler instances. *)

\* C36 as stated: stopping one Labeler instance through its pre-stop hook
\* does not affect the other running instances: the subscription a running
\* instance consumes from exists, and no image-notification published
\* before or after the stop is lost to it.
C36_StopLeavesOthersRunning ==
    \A l \in Labelers :
        fleet.st[l] = "running" => fleet.exists /\ fleet.lost = 0

---------------------------------------------------------------------------
(* Claims about concurrent construction. *)

\* C37 as stated: when two instances run the check-exists-else-create step
\* for the same subscription name (or topic name) at the same time, then
\* for every interleaving both constructors return without error, unless a
\* broker call failed in transport or the topic of the subscription is
\* missing, and exactly one subscription (topic) of that name exists.
C37_ConcurrentEnsure ==
    \A c, d \in Ctors :
        (/\ c # d
         /\ ctor[c].stage # "none" /\ ctor[c].stage = ctor[d].stage
         /\ ctor[c].pc = "done" /\ ctor[d].pc = "done"
         /\ c \notin ctor[d].after /\ d \notin ctor[c].after
         /\ ctor[c].cause \notin {"transport", "notfound"}
         /\ ctor[d].cause \notin {"transport", "notfound"}) =>
            /\ ctor[c].res = "ok" /\ ctor[d].res = "ok"
            /\ IF ctor[c].stage = "receiver"
               THEN PubTopic("receiver") \in topics
               ELSE Cardinality({sb \in subs :
                                   sb.name = SubName(ctor[c].stage)}) = 1

---------------------------------------------------------------------------
(* Claims about errors within a sweep run. *)

\* C38: a sweep run is not aborted by a failure on one entry: after an
\* entry with a listing error or a failed RemoveObject the same run goes on
\* with the next listed entry, it ends only when the listing is exhausted,
\* and every entry after the failure is examined like any other: removed
\* (RemoveObject called) if and only if it is older than the retention
\* window.
C38_SweepGoesOnAfterError ==
    /\ [][sweep.pc = "run" /\ sweep' # sweep =>
             /\ sweep'.list = Tail(sweep.list)
             /\ Len(sweep'.done) = Len(sweep.done) + 1
             /\ sweep'.done[Len(sweep'.done)].key = Head(sweep.list).key
             /\ sweep'.pc = "idle" <=> Len(sweep.list) = 1]_vars
    /\ [](/\ sweep.pc = "idle" => sweep.list = <<>>
          /\ \A k, n \in 1..Len(sweep.done) :
                (k < n /\ sweep.done[k].res \in {"listerr", "rmerr"}
                       /\ sweep.done[n].res # "listerr") =>
                   (sweep.done[n].res \in {"removed", "rmerr"}
                      <=> Expired(sweep.t, sweep.done[n].mtime)))
    /\ [][\A k \in 1..Len(sweep'.done) :
             (k > Len(sweep.done) /\ sweep'.done[k].res = "removed")
                => ~store'[sweep'.done[k].key].present]_vars

\* a run met a listing error, then a failed RemoveObject, and went on to
\* remove the next old object before it ended
C38_Witness ==
    /\ sweep.pc = "idle" /\ Len(sweep.done) = 3
    /\ sweep.done[1].res = "listerr"
    /\ sweep.done[2].res = "rmerr" /\ store[sweep.done[2].key].present
    /\ sweep.done[3].res = "removed" /\ ~store[sweep.done[3].key].present

====
